---------------------------- MODULE Spec2Model ----------------------------
(***************************************************************************)
(* A model of the asynchronous subsystem of be0:                           *)
(*   - the in-process event bus        (internal/events/events.go)         *)
(*   - the sliding-window rate limiter (package rate, QueueRateLimiter)    *)
(*   - the task worker server          (internal/tasks/server.go)          *)
(*   - the task scheduler and the CronSchedule option                      *)
(*                                     (internal/tasks/scheduler.go)       *)
(*   - the start and end of the process (cmd/main.go)                      *)
(*   - the task client                 (package tasks, TaskClient)         *)
(*   - the password reset              (AuthHandler)                       *)
(*   - queues named after a resource   (GetEmailQueueName)                 *)
(*   - the tokens                      (Login, RefreshToken, middleware)   *)
(*   - the accounts                    (Register, invites, BaseService)    *)
(* Each part has its own specification over its own variables; the         *)
(* variables of the other parts stay at their initial values.              *)
(***************************************************************************)
EXTENDS Integers, Sequences, FiniteSets, TLC

(***************************************************************************)
(* Bounds of the model.                                                    *)
(***************************************************************************)
MaxOps == 3         \* calls of On and Emit explored, together
MaxTime == 3        \* seconds the clock of the rate limiter advances
MaxCalls == 3       \* calls of Allow explored
MaxPending == 2     \* ready tasks a queue holds at a time
MaxNow == 4         \* minutes past the hour at which an option is applied
MaxMinutes == 3     \* minutes the clock of the scheduler advances
MaxRegs == 2        \* calls of RegisterCustomTask explored
MaxStops == 2       \* calls of Scheduler.Stop explored
MaxEnq == 3         \* calls of Enqueue through the task client explored
MaxLate == 1        \* minutes the clock runs past the expiry of a reset code
MaxLogins == 2      \* successful logins
MaxReqs == 3        \* requests to the accounts explored

(***************************************************************************)
(* Configuration of the rate limiter under study: QueueConfig.RateLimit.   *)
(***************************************************************************)
RLWindow == 2       \* RateLimit.Window, in seconds
RLMaxJobs == 1      \* RateLimit.MaxJobs

(***************************************************************************)
(* Inputs of the event bus.                                                *)
(***************************************************************************)
Callers == {"c1", "c2"}                 \* goroutines calling On / Emit
Events == {"x.e", "y.e"}                \* event names
Payloads == {1, 2}                      \* data passed to Emit
Handlers == {"hOk", "hPanic", "hBlock"} \* EventHandler values

\* What the body of a handler does when called: it returns, it panics, or
\* it never returns.
Behaviour(h) ==
    CASE h = "hOk" -> "return"
      [] h = "hPanic" -> "panic"
      [] h = "hBlock" -> "block"

NoCall == [pc |-> "idle", event |-> "", h |-> "", data |-> 0,
           hs |-> <<>>, i |-> 0, id |-> 0]

VARIABLES
    handlers,   \* EventBus.handlers: map event -> list of handlers
    mu,         \* EventBus.mu: [writer, readers]
    call,       \* per caller: the On/Emit call in progress and its locals
    gor,        \* goroutines started by Emit, keyed <<emit id, index>>
    crashed,    \* the process died of an unrecovered panic
    emitLog,    \* history: per Emit call, what it looked up and whether it returned
    regCount,   \* history: completed On(e, h) calls per event and handler
    nOn,        \* number of On calls made
    nEmit       \* number of Emit calls made

busVars == <<handlers, mu, call, gor, crashed, emitLog, regCount, nOn, nEmit>>

VARIABLES
    clock,      \* time.Now().Unix(), in seconds
    zset,       \* per identifier: the sorted set at the limiter's key, <<member, score>> pairs
    expireAt,   \* per identifier: when the key expires (NoExpiry: no time to live)
    rlCall,     \* per client: the Allow call in progress and its locals
    rlLog       \* history: the Allow calls that have returned, in order of return

rlVars == <<clock, zset, expireAt, rlCall, rlLog>>

VARIABLES
    pending,    \* per queue: number of ready tasks in the broker's list
    active,     \* number of tasks whose handler is executing
    procPc,     \* the processor loop: "acquire" a worker slot, then "dequeue"
    mark,       \* history: per queue, position in the list of one tracked task (0: none)
    markStarted \* history: per queue, the tracked task has been started

wsVars == <<pending, active, procPc, mark, markStarted>>

VARIABLES
    msg,        \* per task: its message in the broker (state, retried, retry) and its history
    srvState,   \* asynq.Server state: "active", "stopped" or "closed"
    quit,       \* the processor has been told to stop (its quit channel is closed)
    abort,      \* the shutdown timeout has elapsed (the abort channel is closed)
    loopPc,     \* the processor loop: "acquire", "dequeue", or "done" once it has ended
    ctl,        \* the goroutine that calls Stop / Shutdown: the call it is inside
    inFlight,   \* history: handlers in flight at the call of Shutdown and not finished since
    claimLog    \* history: the phases of Stop / Shutdown in which a task was claimed

tlVars == <<msg, srvState, quit, abort, loopPc, ctl, inFlight, claimLog>>

\* The variables of the parts that follow the worker server's queues.
VARIABLES
    crPc,       \* the CronSchedule option: "none", "built" or "applied"
    crExpr,     \* cronSchedule.expr, as the list of its fields
    crNow,      \* time.Now() in Apply
    crNext      \* opts.NextProcessAt (NoTime: not set)

crVars == <<crPc, crExpr, crNow, crNext>>

VARIABLES
    schState,   \* asynq.Scheduler state: "new", "active" or "closed"
    schClock,   \* the time, in minutes
    entries,    \* per entry id: the registered entry, its next time, and its history
    enqLog,     \* history: the tasks the scheduler's jobs have enqueued
    stopPc,     \* per caller of Stop: "idle", or "waiting" inside Stop
    nStop,      \* number of Stop calls made
    regLog      \* history: number of RegisterCustomTask calls and the last one's result

scVars == <<schState, schClock, entries, enqLog, stopPc, nStop, regLog>>

VARIABLES
    mainPc,         \* where main is
    taskServer,     \* the goroutine of taskServer.Start: "none", "starting", "running", "failed"
    taskScheduler,  \* the goroutine of taskScheduler.Start, likewise, or "stopped"
    apiServer,      \* the goroutine of the API server: "none", "s3", "starting", "serving", "failed", "shutdown"
    exited          \* the process: "no", or how it ended ("fatal", "returned")

mnVars == <<mainPc, taskServer, taskScheduler, apiServer, exited>>

VARIABLES
    tcBroker,   \* the broker is within reach of the client: "up" or "down"
    tcStored,   \* the ids of the tasks in the broker's store
    tcCall,     \* the Enqueue call in progress
    tcLog,      \* history: what the Enqueue calls have returned
    tcCalls,    \* number of Enqueue calls made
    tcCrashed   \* history: the producing process has crashed

tcVars == <<tcBroker, tcStored, tcCall, tcLog, tcCalls, tcCrashed>>

VARIABLES
    pwClock,    \* time.Now(), in minutes
    pwReset,    \* the row of models.PasswordReset for the code issued
    password,   \* the user's password: "old", or the request that set it
    pwReq,      \* per client: the VerifyResetCode request in progress
    pwChanges,  \* history: number of updates of the password
    pwOk        \* history: number of requests answered 200

pwVars == <<pwClock, pwReset, password, pwReq, pwChanges, pwOk>>

VARIABLES
    eqPending,  \* per queue name: number of ready tasks in the broker's list
    eqPc,       \* the processor of the server: "acquire" or "dequeue"
    eqActive,   \* number of tasks whose handler is executing
    eqClaimed   \* history: the queue names a task has been claimed from

eqVars == <<eqPending, eqPc, eqActive, eqClaimed>>

VARIABLES
    auClock,    \* time.Now(), in days
    authTx,     \* the rows of models.AuthTransaction
    issued,     \* history: the token pairs returned by Login with status 200
    auLast      \* history: the last request and its response

auVars == <<auClock, authTx, issued, auLast>>

VARIABLES
    acClock,    \* time.Now(), in weeks
    acUsers,    \* the rows of models.User: [email, team, role]
    acTeams,    \* the ids of the rows of models.Team
    acInvites,  \* the rows of models.TeamInvite
    acPerms,    \* the emails of the users that hold permissions
    acRows,     \* the rows of the table of a BaseService: [id, deleted]
    acEvents,   \* history: the events emitted, [name, ref]
    acSeq,      \* number of ids drawn for teams
    acN,        \* number of requests made
    acLast      \* history: the last request, what it found and its response

acVars == <<acClock, acUsers, acTeams, acInvites, acPerms, acRows, acEvents,
            acSeq, acN, acLast>>

xVars == <<tlVars, crVars, scVars, mnVars, tcVars, pwVars, eqVars, auVars,
     acVars>>

\* For each of these parts, the variables of all the others.
tlFrame ==
    <<busVars, rlVars, wsVars, crVars, scVars, mnVars, tcVars, pwVars,
     eqVars, auVars, acVars>>
crFrame ==
    <<busVars, rlVars, wsVars, tlVars, scVars, mnVars, tcVars, pwVars,
     eqVars, auVars, acVars>>
scFrame ==
    <<busVars, rlVars, wsVars, tlVars, crVars, mnVars, tcVars, pwVars,
     eqVars, auVars, acVars>>
mnFrame ==
    <<busVars, rlVars, wsVars, tlVars, crVars, scVars, tcVars, pwVars,
     eqVars, auVars, acVars>>
tcFrame ==
    <<busVars, rlVars, wsVars, tlVars, crVars, scVars, mnVars, pwVars,
     eqVars, auVars, acVars>>
pwFrame ==
    <<busVars, rlVars, wsVars, tlVars, crVars, scVars, mnVars, tcVars,
     eqVars, auVars, acVars>>
eqFrame ==
    <<busVars, rlVars, wsVars, tlVars, crVars, scVars, mnVars, tcVars,
     pwVars, auVars, acVars>>
auFrame ==
    <<busVars, rlVars, wsVars, tlVars, crVars, scVars, mnVars, tcVars,
     pwVars, eqVars, acVars>>
acFrame ==
    <<busVars, rlVars, wsVars, tlVars, crVars, scVars, mnVars, tcVars,
     pwVars, eqVars, auVars>>

vars == <<busVars, rlVars, wsVars, xVars>>

----------------------------------------------------------------------------
(***************************************************************************)
(* EventBus                                                                *)
(***************************************************************************)

\* NewEventBus: an empty map, an unlocked mutex.
BusInit ==
    /\ handlers = <<>>
    /\ mu = [writer |-> "none", readers |-> 0]
    /\ call = [c \in Callers |-> NoCall]
    /\ gor = <<>>
    /\ crashed = FALSE
    /\ emitLog = <<>>
    /\ regCount = [e \in Events |-> [h \in Handlers |-> 0]]
    /\ nOn = 0
    /\ nEmit = 0

\* (mutant) On without the mutex.
MuLockFree_noLock == TRUE

\* bus.mu.Lock() succeeds when no writer and no reader holds the mutex.
MuLockFree == mu.writer = "none" /\ mu.readers = 0

\* bus.mu.RLock() succeeds when no writer holds the mutex.
MuRLockFree == mu.writer = "none"

\* (mutant) the lookup without the exists check: an absent key is treated as
\* a registered event with no handlers.
Lookup_noExistsCheck(e) ==
    [exists |-> TRUE, hs |-> IF e \in DOMAIN handlers THEN handlers[e] ELSE <<>>]

\* bus.handlers[event] read from the map: the zero value (nil slice) and
\* exists = false when the key is absent.
Lookup(e) ==
    IF e \in DOMAIN handlers
    THEN [exists |-> TRUE, hs |-> handlers[e]]
    ELSE [exists |-> FALSE, hs |-> <<>>]

\* (mutant) a registration that keeps one entry per handler.
AppendHandler_dedup(hs, h) ==
    IF \E k \in 1..Len(hs) : hs[k] = h THEN hs ELSE Append(hs, h)

\* (mutant) a registration that puts the handler first.
AppendHandler_front(hs, h) == <<h>> \o hs

\* append(bus.handlers[event], handler)
AppendHandler(hs, h) == Append(hs, h)

\* A caller enters On(event, handler).
OnCall(c, e, h) ==
    /\ ~crashed
    /\ call[c].pc = "idle"
    /\ nOn + nEmit < MaxOps
    /\ nOn' = nOn + 1
    /\ call' = [call EXCEPT ![c] = [NoCall EXCEPT !.pc = "on_lock", !.event = e, !.h = h]]
    /\ UNCHANGED <<handlers, mu, gor, crashed, emitLog, regCount, nEmit>>

\* bus.mu.Lock()
OnLock(c) ==
    /\ ~crashed
    /\ call[c].pc = "on_lock"
    /\ MuLockFree
    /\ mu' = [mu EXCEPT !.writer = c]
    /\ call' = [call EXCEPT ![c].pc = "on_read"]
    /\ UNCHANGED <<handlers, gor, crashed, emitLog, regCount, nOn, nEmit>>

\* the read of bus.handlers[event] that append takes as its argument
OnRead(c) ==
    /\ ~crashed
    /\ call[c].pc = "on_read"
    /\ call' = [call EXCEPT ![c].pc = "on_write", ![c].hs = Lookup(call[c].event).hs]
    /\ UNCHANGED <<handlers, mu, gor, crashed, emitLog, regCount, nOn, nEmit>>

\* bus.handlers[event] = append(...), then the deferred bus.mu.Unlock() and
\* the return of On.
OnWrite(c) ==
    /\ ~crashed
    /\ call[c].pc = "on_write"
    /\ LET e == call[c].event
           new == AppendHandler(call[c].hs, call[c].h)
       IN /\ handlers' = [x \in (DOMAIN handlers) \cup {e} |->
                             IF x = e THEN new ELSE handlers[x]]
          /\ regCount' = [regCount EXCEPT ![e][call[c].h] = @ + 1]
    /\ mu' = [mu EXCEPT !.writer = IF @ = c THEN "none" ELSE @]
    /\ call' = [call EXCEPT ![c] = NoCall]
    /\ UNCHANGED <<gor, crashed, emitLog, nOn, nEmit>>

\* A caller enters Emit(event, data).
EmitCall(c, e, d) ==
    /\ ~crashed
    /\ call[c].pc = "idle"
    /\ nOn + nEmit < MaxOps
    /\ nEmit' = nEmit + 1
    /\ call' = [call EXCEPT ![c] = [NoCall EXCEPT !.pc = "emit_read", !.event = e,
                                                  !.data = d, !.id = nEmit + 1]]
    /\ UNCHANGED <<handlers, mu, gor, crashed, emitLog, regCount, nOn>>

\* bus.mu.RLock(); handlers, exists := bus.handlers[event]; bus.mu.RUnlock();
\* if !exists { return }
\* The read lock is held for the one map read, so the three are one step,
\* taken when no writer holds the mutex.
EmitRead(c) ==
    /\ ~crashed
    /\ call[c].pc = "emit_read"
    /\ MuRLockFree
    /\ LET r == Lookup(call[c].event)
           m == call[c].id
       IN /\ emitLog' = emitLog @@ (m :> [event |-> call[c].event,
                                          data |-> call[c].data,
                                          hs |-> r.hs,
                                          regs |-> regCount[call[c].event],
                                          exists |-> r.exists,
                                          returned |-> ~r.exists])
          /\ call' = [call EXCEPT ![c] =
                        IF r.exists
                        THEN [@ EXCEPT !.pc = "emit_loop", !.hs = r.hs, !.i = 1]
                        ELSE NoCall]
    /\ UNCHANGED <<handlers, mu, gor, crashed, regCount, nOn, nEmit>>

\* (mutant) the handler called in the loop body instead of in a goroutine:
\* the iteration ends when the handler has ended.
GoReturned_sync(m, j) ==
    <<m, j>> \in DOMAIN gor /\ gor[<<m, j>>].st \in {"done", "recovered"}

\* The go statement of the loop body has returned for iteration j of emit m:
\* it starts the goroutine and does not wait for it.
GoReturned(m, j) == <<m, j>> \in DOMAIN gor

\* One iteration of for _, handler := range handlers { go func(h) {...}(handler) }
EmitSpawn(c) ==
    /\ ~crashed
    /\ call[c].pc = "emit_loop"
    /\ call[c].i <= Len(call[c].hs)
    /\ \A j \in 1..(call[c].i - 1) : GoReturned(call[c].id, j)
    /\ gor' = gor @@ (<<call[c].id, call[c].i>> :>
                        [h |-> call[c].hs[call[c].i], data |-> call[c].data,
                         st |-> "ready"])
    /\ call' = [call EXCEPT ![c].i = @ + 1]
    /\ UNCHANGED <<handlers, mu, crashed, emitLog, regCount, nOn, nEmit>>

\* The range loop is exhausted: Emit returns.
EmitReturn(c) ==
    /\ ~crashed
    /\ call[c].pc = "emit_loop"
    /\ call[c].i > Len(call[c].hs)
    /\ \A j \in 1..Len(call[c].hs) : GoReturned(call[c].id, j)
    /\ emitLog' = [emitLog EXCEPT ![call[c].id].returned = TRUE]
    /\ call' = [call EXCEPT ![c] = NoCall]
    /\ UNCHANGED <<handlers, mu, gor, crashed, regCount, nOn, nEmit>>

\* (mutant) a goroutine without the deferred recover: a panic ends the process.
DeferredRecover_none(panicking) == IF panicking THEN "crash" ELSE "done"

\* defer func() { if r := recover(); r != nil { log.Error(...) } }():
\* how the goroutine ends when h(data) panicked or returned.
DeferredRecover(panicking) == IF panicking THEN "recovered" ELSE "done"

\* The goroutine runs h(data).  A handler that returns or panics ends the
\* goroutine through the deferred function; a handler that blocks leaves the
\* goroutine running for ever.
GoRun(g) ==
    /\ ~crashed
    /\ g \in DOMAIN gor
    /\ gor[g].st = "ready"
    /\ LET b == Behaviour(gor[g].h)
           out == IF b = "block" THEN "running" ELSE DeferredRecover(b = "panic")
       IN IF out = "crash"
          THEN /\ crashed' = TRUE
               /\ gor' = [gor EXCEPT ![g].st = "panicked"]
          ELSE /\ gor' = [gor EXCEPT ![g].st = out]
               /\ UNCHANGED crashed
    /\ UNCHANGED <<handlers, mu, call, emitLog, regCount, nOn, nEmit>>

EmitIds == 1..MaxOps
GoIds == EmitIds \X (1..MaxOps)

BusNext ==
    \/ \E c \in Callers, e \in Events, h \in Handlers : OnCall(c, e, h)
    \/ \E c \in Callers : OnLock(c)
    \/ \E c \in Callers : OnRead(c)
    \/ \E c \in Callers : OnWrite(c)
    \/ \E c \in Callers, e \in Events, d \in Payloads : EmitCall(c, e, d)
    \/ \E c \in Callers : EmitRead(c)
    \/ \E c \in Callers : EmitSpawn(c)
    \/ \E c \in Callers : EmitReturn(c)
    \/ \E g \in GoIds : GoRun(g)

----------------------------------------------------------------------------
(***************************************************************************)
(* QueueRateLimiter                                                        *)
(***************************************************************************)
RLClients == {"r1", "r2"}       \* goroutines / processes calling Allow
RLIds == {"a", "b"}             \* identifier arguments
NoExpiry == -1

NoAllow == [pc |-> "idle", id |-> "", now |-> 0, windowStart |-> 0, count |-> 0]

\* An empty store, no call in progress.
RLInit ==
    /\ clock = 0
    /\ zset = [k \in RLIds |-> {}]
    /\ expireAt = [k \in RLIds |-> NoExpiry]
    /\ rlCall = [c \in RLClients |-> NoAllow]
    /\ rlLog = <<>>

\* windowStart := now - int64(Window.Seconds())
WindowStart(now) == now - RLWindow

\* ZREMRANGEBYSCORE key 0 windowStart: both ends of the range are inclusive.
ZRemRangeByScore(set, min, max) == {e \in set : ~(min <= e[2] /\ e[2] <= max)}

\* ZCARD key
ZCard(set) == Cardinality(set)

\* redis.Z{Score: float64(now), Member: now}: the member added for a call.
ZMember(now) == now

\* ZADD key score member: an existing member keeps one entry, with the new score.
ZAdd(set, score, member) == {e \in set : e[1] # member} \cup {<<member, score>>}

\* return count <= int64(qrl.config.RateLimit.MaxJobs)
Admit(count) == count <= RLMaxJobs

\* now := time.Now().Unix(); windowStart := ...; the four commands are queued
\* on the pipeline.
AllowCall(c, k) ==
    /\ rlCall[c].pc = "idle"
    /\ Len(rlLog) + Cardinality({x \in RLClients : rlCall[x].pc \notin {"idle", "absent"}})
          < MaxCalls
    /\ rlCall' = [rlCall EXCEPT ![c] = [pc |-> "zrem", id |-> k, now |-> clock,
                                        windowStart |-> WindowStart(clock),
                                        count |-> 0]]
    /\ UNCHANGED <<clock, zset, expireAt, rlLog>>

\* pipe.Exec fails before any command reaches the store:
\* return false, fmt.Errorf("redis pipeline error: ...")
AllowExecError(c) ==
    /\ rlCall[c].pc = "zrem"
    /\ rlLog' = Append(rlLog, [id |-> rlCall[c].id, now |-> rlCall[c].now,
                               count |-> 0, allowed |-> FALSE, err |-> TRUE])
    /\ rlCall' = [rlCall EXCEPT ![c] = NoAllow]
    /\ UNCHANGED <<clock, zset, expireAt>>

\* The store runs the first command of the pipeline.  A key whose set
\* becomes empty is removed, with its time to live.
ExecZRem(c) ==
    /\ rlCall[c].pc = "zrem"
    /\ LET k == rlCall[c].id
           left == ZRemRangeByScore(zset[k], 0, rlCall[c].windowStart)
       IN /\ zset' = [zset EXCEPT ![k] = left]
          /\ expireAt' = [expireAt EXCEPT ![k] = IF left = {} THEN NoExpiry ELSE @]
    /\ rlCall' = [rlCall EXCEPT ![c].pc = "zcard"]
    /\ UNCHANGED <<clock, rlLog>>

\* The store runs the second command: results[1].
ExecZCard(c) ==
    /\ rlCall[c].pc = "zcard"
    /\ rlCall' = [rlCall EXCEPT ![c].pc = "zadd", ![c].count = ZCard(zset[rlCall[c].id])]
    /\ UNCHANGED <<clock, zset, expireAt, rlLog>>

\* The store runs the third command.
ExecZAdd(c) ==
    /\ rlCall[c].pc = "zadd"
    /\ zset' = [zset EXCEPT ![rlCall[c].id] =
                   ZAdd(@, rlCall[c].now, ZMember(rlCall[c].now))]
    /\ rlCall' = [rlCall EXCEPT ![c].pc = "expire"]
    /\ UNCHANGED <<clock, expireAt, rlLog>>

\* The store runs the fourth command, EXPIRE key 2*Window; Exec returns and
\* Allow returns count <= MaxJobs.
ExecExpireReturn(c) ==
    /\ rlCall[c].pc = "expire"
    /\ expireAt' = [expireAt EXCEPT ![rlCall[c].id] =
                       IF zset[rlCall[c].id] = {} THEN @ ELSE clock + 2 * RLWindow]
    /\ rlLog' = Append(rlLog, [id |-> rlCall[c].id, now |-> rlCall[c].now,
                               count |-> rlCall[c].count,
                               allowed |-> Admit(rlCall[c].count), err |-> FALSE])
    /\ rlCall' = [rlCall EXCEPT ![c] = NoAllow]
    /\ UNCHANGED <<clock, zset>>

\* A second passes; keys whose time to live has run out are removed.
Tick ==
    /\ clock < MaxTime
    /\ clock' = clock + 1
    /\ zset' = [k \in RLIds |->
                  IF expireAt[k] # NoExpiry /\ expireAt[k] <= clock + 1 THEN {} ELSE zset[k]]
    /\ expireAt' = [k \in RLIds |->
                      IF expireAt[k] # NoExpiry /\ expireAt[k] <= clock + 1
                      THEN NoExpiry ELSE expireAt[k]]
    /\ UNCHANGED <<rlCall, rlLog>>

\* The pipeline is not a transaction (Pipeline, not TxPipeline): the store
\* runs the commands of one client in order, and may run commands of other
\* clients between them.
RLNext ==
    \/ \E c \in RLClients, k \in RLIds : AllowCall(c, k)
    \/ \E c \in RLClients : AllowExecError(c)
    \/ \E c \in RLClients : ExecZRem(c)
    \/ \E c \in RLClients : ExecZCard(c)
    \/ \E c \in RLClients : ExecZAdd(c)
    \/ \E c \in RLClients : ExecExpireReturn(c)
    \/ Tick

----------------------------------------------------------------------------
(***************************************************************************)
(* Worker server: asynq.NewServer with the Config of NewServer, started by *)
(* Server.Start.  The processor of the library acquires a worker slot,     *)
(* asks the broker for a task from the queues in their order, and runs the *)
(* task's handler in a goroutine that releases the slot when it ends.      *)
(* One request to the broker for the next task is one step.                *)
(***************************************************************************)
Concurrency == 10

Queues == {"critical", "default", "low"}

\* Config.Queues
QueueWeight(q) ==
    CASE q = "critical" -> 6
      [] q = "default" -> 3
      [] q = "low" -> 1

\* (mutant) a configuration that leaves out the low queue.
ServerQueues_noLow == {"critical", "default"}

\* The queues the server consumes: the keys of Config.Queues.
ServerQueues == Queues

\* Some queue the server consumes has a greater weight than q and holds a
\* ready task.
HigherReady(q) ==
    \E q2 \in ServerQueues : QueueWeight(q2) > QueueWeight(q) /\ pending[q2] > 0

\* (mutant) the configuration without strict priority.
StrictPriority_off == FALSE

\* Config.StrictPriority
StrictPriority == TRUE

\* The queues that hold a ready task and may be served next: with strict
\* priority the one of greatest weight; without it any of them (the library
\* then draws the order at random, by weight).
Servable ==
    {q \in ServerQueues :
        /\ pending[q] > 0
        /\ StrictPriority => ~HigherReady(q)}

\* (mutant) a slot check that is off by one.
SlotFree_offByOne == active <= Concurrency

\* A worker slot is free: fewer than Concurrency handlers are executing.
SlotFree == active < Concurrency

\* The server has been started and the queues are empty.
WSInit ==
    /\ pending = [q \in Queues |-> 0]
    /\ active = 0
    /\ procPc = "acquire"
    /\ mark = [q \in Queues |-> 0]
    /\ markStarted = [q \in Queues |-> FALSE]

\* A producer (or the broker's retry of a failed task) puts a task on queue
\* q, at the tail of its list.  With track, the task becomes the tracked
\* task of a queue that tracks none.
Enqueue(q, track) ==
    /\ pending[q] < MaxPending
    /\ pending' = [pending EXCEPT ![q] = @ + 1]
    /\ IF track
       THEN /\ mark[q] = 0
            /\ \E q2 \in Queues : QueueWeight(q2) > QueueWeight(q)
            /\ mark' = [mark EXCEPT ![q] = pending[q] + 1]
            /\ markStarted' = [markStarted EXCEPT ![q] = FALSE]
       ELSE UNCHANGED <<mark, markStarted>>
    /\ UNCHANGED <<active, procPc>>

\* The processor takes a worker slot before it asks for a task.
ProcAcquire ==
    /\ procPc = "acquire"
    /\ SlotFree
    /\ procPc' = "dequeue"
    /\ UNCHANGED <<pending, active, mark, markStarted>>

\* The broker has no ready task: the slot is given back and the processor
\* tries again later.
ProcIdle ==
    /\ procPc = "dequeue"
    /\ \A q \in ServerQueues : pending[q] = 0
    /\ procPc' = "acquire"
    /\ UNCHANGED <<pending, active, mark, markStarted>>

\* The broker hands out the head of queue q (a queue is a list served in
\* arrival order, so a tracked task moves one place ahead) and the processor
\* starts a goroutine that runs the task's handler (with the mux of Server.Start,
\* which registers none, the not-found handler).
ProcDequeue(q) ==
    /\ procPc = "dequeue"
    /\ q \in Servable
    /\ pending' = [pending EXCEPT ![q] = @ - 1]
    /\ active' = active + 1
    /\ mark' = [mark EXCEPT ![q] = IF @ > 0 THEN @ - 1 ELSE 0]
    /\ markStarted' = [markStarted EXCEPT ![q] = IF mark[q] = 1 THEN TRUE ELSE @]
    /\ procPc' = "acquire"

\* A handler returns; its goroutine releases the worker slot.
WorkerFinish ==
    /\ active > 0
    /\ active' = active - 1
    /\ UNCHANGED <<pending, procPc, mark, markStarted>>

WSNext ==
    \/ \E q \in Queues, track \in BOOLEAN : Enqueue(q, track)
    \/ ProcAcquire
    \/ ProcIdle
    \/ \E q \in Queues : ProcDequeue(q)
    \/ WorkerFinish

----------------------------------------------------------------------------
(***************************************************************************)
(* Life cycle of a task in the worker server.  Server.Start hands the      *)
(* library a ServeMux on which no handler is registered; Server.Stop and   *)
(* Server.Shutdown call the library's Stop and Shutdown.  The library's    *)
(* processor runs a task's handler and reports the result to the broker:   *)
(* success completes the task, an error sends it to the retry set with its *)
(* retried count raised, or archives it when the count has reached the     *)
(* task's retry limit.                                                     *)
(***************************************************************************)
RetryMax == 5
RetryDefault == 3
RetryMin == 1

\* The retry limits a producer gives a task (asynq.MaxRetry).
RetryLimits == {RetryMin, RetryDefault, RetryMax}

TaskIds == {"t1", "t2"}

\* The type of each task: the one type the package names, and another one.
TypeOf(t) == IF t = "t1" THEN "queue:config" ELSE "email:send"

\* The task types with a handler on the mux of Server.Start: none.
Registered == {}

\* What a registered handler may do: return nil, return an error, or run
\* past the task's deadline.
HandlerResults == {"ok", "error", "timeout"}

\* (mutant) a mux that answers nil for a type it does not know.
NotFound_ignored(type) == "ok"

\* asynq.NotFound, what the mux runs for a type without handler: it returns
\* an error.
NotFound(type) == "error"

\* mux.ProcessTask: the results the processor can receive for a task type.
ProcessTask(type) ==
    IF type \in Registered THEN HandlerResults ELSE {NotFound(type)}

\* (mutant) a retry check that allows one retry too many.
RetryExhausted_offByOne(m) == m.retried > m.retry

\* The processor archives a failed task instead of retrying it.
RetryExhausted(m) == m.retried >= m.retry

NoMsg == [state |-> "none", retried |-> 0, retry |-> 0, runs |-> 0,
          result |-> "none", reported |-> "none"]

\* The tasks whose handler is executing.
Running == {t \in TaskIds : msg[t].state = "active"}

\* Where the goroutine that controls the server is: before any call, inside
\* Stop, after Stop, inside Shutdown, or after Shutdown.
Phase ==
    CASE ctl = "Stop" -> "StopCalled"
      [] ctl = "Shutdown" -> "ShutdownCalled"
      [] ctl = "closed" -> "ShutdownReturned"
      [] ctl = "idle" /\ srvState = "stopped" -> "StopReturned"
      [] OTHER -> "Started"

\* Server.Start has returned nil: the processor loop runs, no task exists.
TLInit ==
    /\ msg = [t \in TaskIds |-> NoMsg]
    /\ srvState = "active"
    /\ quit = FALSE
    /\ abort = FALSE
    /\ loopPc = "acquire"
    /\ ctl = "idle"
    /\ inFlight = {}
    /\ claimLog = {}

\* A producer enqueues task t with retry limit r.
ClientEnqueue(t, r) ==
    /\ msg[t].state = "none"
    /\ msg' = [msg EXCEPT ![t] = [NoMsg EXCEPT !.state = "pending", !.retry = r]]
    /\ UNCHANGED <<srvState, quit, abort, loopPc, ctl, inFlight, claimLog>>

\* The processor takes a worker slot; it does not once it was told to stop.
TLAcquire ==
    /\ loopPc = "acquire"
    /\ ~quit
    /\ Cardinality(Running) < Concurrency
    /\ loopPc' = "dequeue"
    /\ UNCHANGED <<msg, srvState, quit, abort, ctl, inFlight, claimLog>>

\* The broker has no ready task; the slot is given back.
TLIdle ==
    /\ loopPc = "dequeue"
    /\ \A t \in TaskIds : msg[t].state # "pending"
    /\ loopPc' = "acquire"
    /\ UNCHANGED <<msg, srvState, quit, abort, ctl, inFlight, claimLog>>

\* The broker hands task t to the processor (the task is claimed), which
\* starts a goroutine that runs the handler on the mux.
TLDequeue(t) ==
    /\ loopPc = "dequeue"
    /\ msg[t].state = "pending"
    /\ msg' = [msg EXCEPT ![t].state = "active", ![t].runs = @ + 1]
    /\ claimLog' = claimLog \cup {Phase}
    /\ loopPc' = "acquire"
    /\ UNCHANGED <<srvState, quit, abort, ctl, inFlight>>

\* The handler of task t has returned (or its deadline has passed) and the
\* worker reports the result to the broker.
TaskDone(t) ==
    /\ msg[t].state = "active"
    /\ \E r \in ProcessTask(TypeOf(t)) :
          msg' = [msg EXCEPT ![t] =
                     IF r = "ok"
                     THEN [@ EXCEPT !.state = "done", !.result = r,
                                    !.reported = "succeeded"]
                     ELSE IF RetryExhausted(@)
                          THEN [@ EXCEPT !.state = "archived", !.result = r,
                                         !.reported = "failed"]
                          ELSE [@ EXCEPT !.state = "retry", !.result = r,
                                         !.reported = "failed",
                                         !.retried = @ + 1]]
    /\ inFlight' = inFlight \ {t}
    /\ UNCHANGED <<srvState, quit, abort, loopPc, ctl, claimLog>>

\* The server's forwarder moves a task whose retry delay has passed back to
\* its queue; Shutdown ends the forwarder.
Forward(t) ==
    /\ srvState # "closed"
    /\ msg[t].state = "retry"
    /\ msg' = [msg EXCEPT ![t].state = "pending"]
    /\ UNCHANGED <<srvState, quit, abort, loopPc, ctl, inFlight, claimLog>>

\* Server.Stop is called on an active server: the processor is told to stop.
StopCall ==
    /\ ctl = "idle"
    /\ srvState = "active"
    /\ srvState' = "stopped"
    /\ quit' = TRUE
    /\ ctl' = "Stop"
    /\ UNCHANGED <<msg, abort, loopPc, inFlight, claimLog>>

\* The processor loop, back at its top, sees the request to stop and ends.
LoopDone ==
    /\ loopPc = "acquire"
    /\ quit
    /\ loopPc' = "done"
    /\ UNCHANGED <<msg, srvState, quit, abort, ctl, inFlight, claimLog>>

\* Server.Stop returns once the processor loop has ended.
StopReturn ==
    /\ ctl = "Stop"
    /\ loopPc = "done"
    /\ ctl' = "idle"
    /\ UNCHANGED <<msg, srvState, quit, abort, loopPc, inFlight, claimLog>>

\* Server.Shutdown is called on a server that is not closed: the processor
\* is told to stop (if it was not yet).
ShutdownCall ==
    /\ ctl = "idle"
    /\ srvState # "closed"
    /\ srvState' = "closed"
    /\ quit' = TRUE
    /\ ctl' = "Shutdown"
    /\ inFlight' = Running
    /\ UNCHANGED <<msg, abort, loopPc, claimLog>>

\* The shutdown timeout, started once the processor loop has ended, elapses.
ShutdownTimeout ==
    /\ ctl = "Shutdown"
    /\ loopPc = "done"
    /\ ~abort
    /\ Running # {}
    /\ abort' = TRUE
    /\ UNCHANGED <<msg, srvState, quit, loopPc, ctl, inFlight, claimLog>>

\* After the timeout a worker gives up waiting for its handler and pushes
\* the task back to its queue.
WorkerAbort(t) ==
    /\ abort
    /\ msg[t].state = "active"
    /\ msg' = [msg EXCEPT ![t].state = "pending"]
    /\ UNCHANGED <<srvState, quit, abort, loopPc, ctl, inFlight, claimLog>>

\* Server.Shutdown returns once every worker has released its slot.
ShutdownReturn ==
    /\ ctl = "Shutdown"
    /\ loopPc = "done"
    /\ Running = {}
    /\ ctl' = "closed"
    /\ UNCHANGED <<msg, srvState, quit, abort, loopPc, inFlight, claimLog>>

TLNext ==
    \/ \E t \in TaskIds, r \in RetryLimits : ClientEnqueue(t, r)
    \/ TLAcquire
    \/ TLIdle
    \/ \E t \in TaskIds : TLDequeue(t)
    \/ \E t \in TaskIds : TaskDone(t)
    \/ \E t \in TaskIds : Forward(t)
    \/ StopCall
    \/ LoopDone
    \/ StopReturn
    \/ ShutdownCall
    \/ ShutdownTimeout
    \/ \E t \in TaskIds : WorkerAbort(t)
    \/ ShutdownReturn

----------------------------------------------------------------------------
(***************************************************************************)
(* Cron expressions.  Time is counted in minutes; minute 0 is the top of   *)
(* an hour.  An expression is the list of its blank-separated fields.      *)
(* Of the standard parser (five fields, or a descriptor) the model knows   *)
(* the minute field and the descriptors below; the hour, day and month     *)
(* fields are "*" or do not parse.                                         *)
(***************************************************************************)
Hour == 60

EveryMinute == <<"*", "*", "*", "*", "*">>
EveryOther == <<"*/2", "*", "*", "*", "*">>
TopOfHour == <<"0", "*", "*", "*", "*">>

\* Expressions passed to the parser: six that parse and eight that do not
\* (no field, four fields, six fields, a minute out of range, a bad field,
\* words, a bad duration, an unknown descriptor).
CronExprs ==
    {EveryMinute, EveryOther, TopOfHour,
     <<"@every", "1m">>, <<"@every", "2m">>, <<"@hourly">>,
     <<>>, <<"*", "*", "*", "*">>, <<"*", "*", "*", "*", "*", "*">>,
     <<"60", "*", "*", "*", "*">>, <<"*", "x", "*", "*", "*">>,
     <<"every", "minute">>, <<"@every", "soon">>, <<"@fortnightly">>}

ParseError == [ok |-> FALSE, kind |-> "none", delay |-> 0, minutes |-> {}]

\* The minutes of the hour a minute field stands for ({}: it does not parse).
MinuteField(f) ==
    CASE f = "*" -> 0 .. (Hour - 1)
      [] f = "*/2" -> {m \in 0 .. (Hour - 1) : m % 2 = 0}
      [] f = "0" -> {0}
      [] OTHER -> {}

\* The minutes of a duration ("1m", "2m"; 0: it does not parse).
Duration(f) ==
    CASE f = "1m" -> 1
      [] f = "2m" -> 2
      [] OTHER -> 0

\* cron.ParseStandard: the schedule of an expression, or an error.
ParseStandard(expr) ==
    IF Len(expr) = 0 THEN ParseError
    ELSE IF expr[1] = "@every"
    THEN IF Len(expr) = 2 /\ Duration(expr[2]) > 0
         THEN [ok |-> TRUE, kind |-> "every", delay |-> Duration(expr[2]),
               minutes |-> {}]
         ELSE ParseError
    ELSE IF expr = <<"@hourly">>
    THEN [ok |-> TRUE, kind |-> "spec", delay |-> 0, minutes |-> {0}]
    ELSE IF /\ Len(expr) = 5
            /\ MinuteField(expr[1]) # {}
            /\ \A i \in 2 .. 5 : expr[i] = "*"
    THEN [ok |-> TRUE, kind |-> "spec", delay |-> 0,
          minutes |-> MinuteField(expr[1])]
    ELSE ParseError

\* Time t matches the fields of a schedule.
Matches(sched, t) == (t % Hour) \in sched.minutes

\* (mutant) a search that starts at now itself.
ScheduleNext_inclusive(sched, now) ==
    IF sched.kind = "every" THEN now + sched.delay
    ELSE CHOOSE t \in now .. (now + Hour) :
            /\ Matches(sched, t)
            /\ \A u \in now .. (t - 1) : ~Matches(sched, u)

\* Schedule.Next(now): now plus the delay of an "@every" schedule, else the
\* first matching time after now.
ScheduleNext(sched, now) ==
    IF sched.kind = "every" THEN now + sched.delay
    ELSE CHOOSE t \in (now + 1) .. (now + Hour) :
            /\ Matches(sched, t)
            /\ \A u \in (now + 1) .. (t - 1) : ~Matches(sched, u)

(***************************************************************************)
(* The CronSchedule option: CronSchedule(expr) builds it, Apply sets the   *)
(* task's next processing time from the expression and the current time.   *)
(***************************************************************************)
NoTime == -1

\* Values of time.Now() at which Apply is called.
Nows == (0 .. MaxNow) \cup {Hour - 1, Hour}

\* No option has been built.
CRInit ==
    /\ crPc = "none"
    /\ crExpr = <<>>
    /\ crNow = 0
    /\ crNext = NoTime

\* CronSchedule(expr): the option holds expr.
CronSchedule(expr) ==
    /\ crPc' = "built"
    /\ crExpr' = expr
    /\ crNow' = 0
    /\ crNext' = NoTime

\* cronSchedule.Apply(opts) at time now: opts.NextProcessAt is one hour from
\* now when the expression does not parse, else the schedule's next time.
Apply(now) ==
    /\ crPc = "built"
    /\ crPc' = "applied"
    /\ crNow' = now
    /\ LET schedule == ParseStandard(crExpr) IN
         crNext' = IF ~schedule.ok
                   THEN now + 1 * Hour
                   ELSE ScheduleNext(schedule, now)
    /\ UNCHANGED crExpr

CRNext ==
    \/ \E expr \in CronExprs : CronSchedule(expr)
    \/ \E now \in Nows : Apply(now)

----------------------------------------------------------------------------
(***************************************************************************)
(* Scheduler: asynq.NewScheduler behind Start, Stop and RegisterCustomTask. *)
(* The library keeps the registered entries in a cron runner: when an      *)
(* entry is due the runner starts a job goroutine for it and computes the  *)
(* entry's next time; the job enqueues the entry's task.  Shutdown stops   *)
(* the runner and waits for the jobs that are running.                     *)
(***************************************************************************)
EntryIds == {"e1", "e2"}

\* The order in which the ids are handed out.
IdRank(e) == IF e = "e1" THEN 1 ELSE 2

\* Goroutines that call Stop: main after the signal, and one more.
StopCallers == {"main", "other"}

\* The cron specs passed to RegisterCustomTask: three that parse, two that
\* do not.
RegSpecs ==
    {EveryMinute, <<"@every", "1m">>, EveryOther,
     <<"every", "minute">>, <<"*", "*", "*", "*", "*", "*">>}

\* The tasks passed to RegisterCustomTask: task type and payload.
TaskTemplates ==
    {[type |-> "queue:config", payload |-> "p1"],
     [type |-> "email:send", payload |-> "p2"]}

NoEntry == [used |-> FALSE, expr |-> <<>>, type |-> "", payload |-> "",
            next |-> NoTime, since |-> NoTime,
            fires |-> 0, inflight |-> 0, enq |-> 0]

\* NewScheduler: not started, nothing registered.
SCInit ==
    /\ schState = "new"
    /\ schClock = 0
    /\ entries = [e \in EntryIds |-> NoEntry]
    /\ enqLog = {}
    /\ stopPc = [c \in StopCallers |-> "idle"]
    /\ nStop = 0
    /\ regLog = [n |-> 0, expr |-> <<>>, err |-> FALSE]

\* (mutant) a runner that takes a spec whether it parses or not.
AddJob_unchecked(expr) == TRUE

\* cron.AddJob adds an entry for a spec that parses and fails otherwise.
AddJob(expr) == ParseStandard(expr).ok

\* RegisterCustomTask(spec, taskType, payload): s.scheduler.Register adds an
\* entry, with a fresh id, for the task; when the spec does not parse it
\* adds none and the call returns the error.
RegisterCustomTask(e, expr, tmpl) ==
    /\ regLog.n < MaxRegs
    /\ ~entries[e].used
    /\ \A e2 \in EntryIds : ~entries[e2].used => IdRank(e) <= IdRank(e2)
    /\ regLog' = [n |-> regLog.n + 1, expr |-> expr, err |-> ~AddJob(expr)]
    /\ IF AddJob(expr)
       THEN entries' = [entries EXCEPT ![e] =
                [NoEntry EXCEPT !.used = TRUE, !.expr = expr,
                    !.type = tmpl.type, !.payload = tmpl.payload,
                    !.next = IF schState = "active"
                             THEN ScheduleNext(ParseStandard(expr), schClock)
                             ELSE NoTime,
                    !.since = IF schState = "active" THEN schClock ELSE NoTime]]
       ELSE UNCHANGED entries
    /\ UNCHANGED <<schState, schClock, enqLog, stopPc, nStop>>

\* Scheduler.Start: registerTasks registers nothing; s.scheduler.Run starts
\* a new scheduler (every entry gets its next time) and returns an error
\* for one that is running or was shut down.
SchedulerStart ==
    /\ IF schState = "new"
       THEN /\ schState' = "active"
            /\ entries' = [e \in EntryIds |->
                  IF entries[e].used
                  THEN [entries[e] EXCEPT
                           !.next = ScheduleNext(ParseStandard(entries[e].expr),
                                                 schClock),
                           !.since = schClock]
                  ELSE entries[e]]
       ELSE UNCHANGED <<schState, entries>>
    /\ UNCHANGED <<schClock, enqLog, stopPc, nStop, regLog>>

\* (mutant) a job that enqueues a task of the entry's type without payload.
JobTask_noPayload(en) == [type |-> en.type, payload |-> ""]

\* The task a job enqueues: the one registered with the entry.
JobTask(en) == [type |-> en.type, payload |-> en.payload]

\* The runner finds entry e due: it starts the entry's job and computes the
\* entry's next time.
Fire(e) ==
    /\ schState = "active"
    /\ entries[e].used
    /\ entries[e].next <= schClock
    /\ entries' = [entries EXCEPT
                      ![e].fires = @ + 1,
                      ![e].inflight = @ + 1,
                      ![e].next = ScheduleNext(ParseStandard(entries[e].expr),
                                               schClock)]
    /\ UNCHANGED <<schState, schClock, enqLog, stopPc, nStop, regLog>>

\* A job of entry e runs: it enqueues the entry's task.
JobRun(e) ==
    /\ entries[e].inflight > 0
    /\ entries' = [entries EXCEPT ![e].inflight = @ - 1, ![e].enq = @ + 1]
    /\ enqLog' = enqLog \cup
          {[entry |-> e, task |-> JobTask(entries[e]),
            stopped |-> (schState = "closed")]}
    /\ UNCHANGED <<schState, schClock, stopPc, nStop, regLog>>

\* Scheduler.Stop: s.scheduler.Shutdown returns at once unless the
\* scheduler is running; else it marks the scheduler closed, stops the
\* runner and waits for the running jobs.
SchedulerStop(c) ==
    /\ nStop < MaxStops
    /\ stopPc[c] = "idle"
    /\ nStop' = nStop + 1
    /\ IF schState = "active"
       THEN /\ schState' = "closed"
            /\ stopPc' = [stopPc EXCEPT ![c] = "waiting"]
       ELSE UNCHANGED <<schState, stopPc>>
    /\ UNCHANGED <<schClock, entries, enqLog, regLog>>

\* Every running job has ended: Shutdown, and with it Stop, returns.
SchedulerStopReturn(c) ==
    /\ stopPc[c] = "waiting"
    /\ \A e \in EntryIds : entries[e].inflight = 0
    /\ stopPc' = [stopPc EXCEPT ![c] = "idle"]
    /\ UNCHANGED <<schState, schClock, entries, enqLog, nStop, regLog>>

\* A minute passes; a running scheduler has started the jobs that were due.
SchedulerTick ==
    /\ schClock < MaxMinutes
    /\ schState = "active" =>
          \A e \in EntryIds : entries[e].used => entries[e].next > schClock
    /\ schClock' = schClock + 1
    /\ UNCHANGED <<schState, entries, enqLog, stopPc, nStop, regLog>>

SCNext ==
    \/ \E e \in EntryIds, expr \in RegSpecs, tmpl \in TaskTemplates :
          RegisterCustomTask(e, expr, tmpl)
    \/ SchedulerStart
    \/ \E e \in EntryIds : Fire(e)
    \/ \E e \in EntryIds : JobRun(e)
    \/ \E c \in StopCallers : SchedulerStop(c)
    \/ \E c \in StopCallers : SchedulerStopReturn(c)
    \/ SchedulerTick

----------------------------------------------------------------------------
(***************************************************************************)
(* main: load the environment and the configuration, initialise the keys,  *)
(* connect to the database, start the task server, the task scheduler and  *)
(* the API server each in a goroutine of its own, wait for a signal, shut  *)
(* down.  log.Fatalf ends the process.                                     *)
(***************************************************************************)

\* main has not begun.
MNInit ==
    /\ mainPc = "env"
    /\ taskServer = "none"
    /\ taskScheduler = "none"
    /\ apiServer = "none"
    /\ exited = "no"

\* The step of main that follows a step of its setup.
AfterSetup(pc) ==
    CASE pc = "env" -> "config"
      [] pc = "config" -> "keys"
      [] pc = "keys" -> "db"
      [] pc = "db" -> "goTaskServer"

\* godotenv.Load, config.Load, crypto.InitializeKeys, db.Connect: each
\* either succeeds or ends the process through log.Fatalf.
Setup(ok) ==
    /\ exited = "no"
    /\ mainPc \in {"env", "config", "keys", "db"}
    /\ IF ok
       THEN mainPc' = AfterSetup(mainPc) /\ UNCHANGED exited
       ELSE exited' = "fatal" /\ UNCHANGED mainPc
    /\ UNCHANGED <<taskServer, taskScheduler, apiServer>>

\* go func() { taskServer.Start(serverCtx) ... }()
GoTaskServer ==
    /\ exited = "no"
    /\ mainPc = "goTaskServer"
    /\ taskServer' = "starting"
    /\ mainPc' = "goTaskScheduler"
    /\ UNCHANGED <<taskScheduler, apiServer, exited>>

\* go func() { taskScheduler.Start() ... }()
GoTaskScheduler ==
    /\ exited = "no"
    /\ mainPc = "goTaskScheduler"
    /\ taskScheduler' = "starting"
    /\ mainPc' = "goApiServer"
    /\ UNCHANGED <<taskServer, apiServer, exited>>

\* go func() { ... apiServer.Start() ... }()
GoApiServer ==
    /\ exited = "no"
    /\ mainPc = "goApiServer"
    /\ apiServer' = "s3"
    /\ mainPc' = "wait"
    /\ UNCHANGED <<taskServer, taskScheduler, exited>>

\* taskServer.Start(serverCtx) returns, nil or an error; the goroutine logs
\* the error and ends.
TaskServerStart(err) ==
    /\ exited = "no"
    /\ taskServer = "starting"
    /\ taskServer' = IF err THEN "failed" ELSE "running"
    /\ UNCHANGED <<mainPc, taskScheduler, apiServer, exited>>

\* taskScheduler.Start() has started the scheduler, or returns an error; the
\* goroutine logs the error and ends.
TaskSchedulerStart(err) ==
    /\ exited = "no"
    /\ taskScheduler = "starting"
    /\ taskScheduler' = IF err THEN "failed" ELSE "running"
    /\ UNCHANGED <<mainPc, taskServer, apiServer, exited>>

\* services.NewS3Service: an error ends the process; else the goroutine
\* registers the service and goes on to start the API server.
ApiS3(ok) ==
    /\ exited = "no"
    /\ apiServer = "s3"
    /\ IF ok
       THEN apiServer' = "starting" /\ UNCHANGED exited
       ELSE exited' = "fatal" /\ UNCHANGED apiServer
    /\ UNCHANGED <<mainPc, taskServer, taskScheduler>>

\* apiServer.Start(): the server serves requests, or Start returns an error
\* that is logged.
ApiStart(err) ==
    /\ exited = "no"
    /\ apiServer = "starting"
    /\ apiServer' = IF err THEN "failed" ELSE "serving"
    /\ UNCHANGED <<mainPc, taskServer, taskScheduler, exited>>

\* <-quit: SIGINT or SIGTERM arrives.
Signal ==
    /\ exited = "no"
    /\ mainPc = "wait"
    /\ mainPc' = "stopScheduler"
    /\ UNCHANGED <<taskServer, taskScheduler, apiServer, exited>>

\* taskScheduler.Stop()
MainStopScheduler ==
    /\ exited = "no"
    /\ mainPc = "stopScheduler"
    /\ taskScheduler' = IF taskScheduler = "running" THEN "stopped" ELSE taskScheduler
    /\ mainPc' = "cancel"
    /\ UNCHANGED <<taskServer, apiServer, exited>>

\* serverCancel(): cancels the context passed to Server.Start, which does
\* not use it.
ServerCancel ==
    /\ exited = "no"
    /\ mainPc = "cancel"
    /\ mainPc' = "shutdownApi"
    /\ UNCHANGED <<taskServer, taskScheduler, apiServer, exited>>

\* apiServer.Shutdown(ctx), then main returns.
ShutdownApi ==
    /\ exited = "no"
    /\ mainPc = "shutdownApi"
    /\ apiServer' = IF apiServer = "serving" THEN "shutdown" ELSE apiServer
    /\ mainPc' = "done"
    /\ exited' = "returned"
    /\ UNCHANGED <<taskServer, taskScheduler>>

MNNext ==
    \/ \E ok \in BOOLEAN : Setup(ok)
    \/ GoTaskServer
    \/ GoTaskScheduler
    \/ GoApiServer
    \/ \E err \in BOOLEAN : TaskServerStart(err)
    \/ \E err \in BOOLEAN : TaskSchedulerStart(err)
    \/ \E ok \in BOOLEAN : ApiS3(ok)
    \/ \E err \in BOOLEAN : ApiStart(err)
    \/ Signal
    \/ MainStopScheduler
    \/ ServerCancel
    \/ ShutdownApi

----------------------------------------------------------------------------
(***************************************************************************)
(* TaskClient: an asynq.Client (and a redis client) with no state of its   *)
(* own; a producer enqueues through GetClient().  Enqueue of the library   *)
(* writes the task to the broker and returns when the broker has answered. *)
(***************************************************************************)

\* NewTaskClient: nothing enqueued, the broker within reach and empty.
TCInit ==
    /\ tcBroker = "up"
    /\ tcStored = {}
    /\ tcCall = [pc |-> "idle", id |-> 0]
    /\ tcLog = {}
    /\ tcCalls = 0
    /\ tcCrashed = FALSE

\* (mutant) a client that keeps the task in a buffer of its own.
BrokerWrite_buffered(stored, id) == stored

\* The write of Enqueue: the task is in the broker's store.
BrokerWrite(stored, id) == stored \cup {id}

\* A producer calls GetClient().Enqueue(task); the task gets a fresh id.
TCEnqueue ==
    /\ tcCall.pc = "idle"
    /\ tcCalls < MaxEnq
    /\ tcCalls' = tcCalls + 1
    /\ tcCall' = [pc |-> "calling", id |-> tcCalls + 1]
    /\ UNCHANGED <<tcBroker, tcStored, tcLog, tcCrashed>>

\* The broker is within reach and stores the task.
TCWrite ==
    /\ tcCall.pc = "calling"
    /\ tcBroker = "up"
    /\ tcStored' = BrokerWrite(tcStored, tcCall.id)
    /\ tcCall' = [tcCall EXCEPT !.pc = "written"]
    /\ UNCHANGED <<tcBroker, tcLog, tcCalls, tcCrashed>>

\* The broker's answer arrives: Enqueue returns the task's id.
TCReturn ==
    /\ tcCall.pc = "written"
    /\ tcBroker = "up"
    /\ tcLog' = tcLog \cup {[id |-> tcCall.id, err |-> FALSE, reached |-> TRUE]}
    /\ tcCall' = [pc |-> "idle", id |-> 0]
    /\ UNCHANGED <<tcBroker, tcStored, tcCalls, tcCrashed>>

\* The broker is out of reach: Enqueue returns an error, either before the
\* task was written or, the connection lost, before the answer arrived.
TCError ==
    /\ tcCall.pc \in {"calling", "written"}
    /\ tcBroker = "down"
    /\ tcLog' = tcLog \cup {[id |-> tcCall.id, err |-> TRUE,
                            reached |-> (tcCall.pc = "written")]}
    /\ tcCall' = [pc |-> "idle", id |-> 0]
    /\ UNCHANGED <<tcBroker, tcStored, tcCalls, tcCrashed>>

\* The producing process crashes and starts again: what it held in memory
\* is gone, the broker's store is not.
TCCrash ==
    /\ tcCall' = [pc |-> "idle", id |-> 0]
    /\ tcCrashed' = TRUE
    /\ UNCHANGED <<tcBroker, tcStored, tcLog, tcCalls>>

\* The broker goes out of reach, or comes back.
TCBroker ==
    /\ tcBroker' = IF tcBroker = "up" THEN "down" ELSE "up"
    /\ UNCHANGED <<tcStored, tcCall, tcLog, tcCalls, tcCrashed>>

TCNext ==
    \/ TCEnqueue
    \/ TCWrite
    \/ TCReturn
    \/ TCError
    \/ TCCrash
    \/ TCBroker

----------------------------------------------------------------------------
(***************************************************************************)
(* Password reset: RequestPasswordReset stores a code that expires 15      *)
(* minutes later; VerifyResetCode looks the code up, sets the user's       *)
(* password and marks the code used, in three statements on the database   *)
(* that are not in a transaction.  Requests run concurrently.  Time is in  *)
(* minutes.                                                                *)
(***************************************************************************)
ResetTTL == 15

\* Requests to VerifyResetCode in progress at a time.
PwClients == {"q1", "q2"}

\* The codes a request carries: the one that was issued, and another.
PwCodes == {"k", "z"}

NoReset == [exists |-> FALSE, code |-> "", used |-> FALSE, expiresAt |-> 0]

\* One user, with a password and no reset code.
PWInit ==
    /\ pwClock = 0
    /\ pwReset = NoReset
    /\ password = "old"
    /\ pwReq = [q \in PwClients |-> [pc |-> "idle", code |-> ""]]
    /\ pwChanges = 0
    /\ pwOk = 0

\* RequestPasswordReset for the user's email: the code is generated and
\* its row is created and committed.
RequestPasswordReset ==
    /\ ~pwReset.exists
    /\ pwReset' = [exists |-> TRUE, code |-> "k", used |-> FALSE,
                   expiresAt |-> pwClock + ResetTTL]
    /\ UNCHANGED <<pwClock, password, pwReq, pwChanges, pwOk>>

\* The row First finds for: code = ? AND used = false AND expires_at > now.
FindReset(code, now) ==
    /\ pwReset.exists
    /\ pwReset.code = code
    /\ pwReset.used = FALSE
    /\ pwReset.expiresAt > now

\* VerifyResetCode, up to the lookup of the code: without a row the request
\* is answered 400.
VerifyLookup(q, code) ==
    /\ pwReq[q].pc = "idle"
    /\ pwReq' = [pwReq EXCEPT ![q] =
                    [pc |-> IF FindReset(code, pwClock) THEN "found" ELSE "rejected",
                     code |-> code]]
    /\ UNCHANGED <<pwClock, pwReset, password, pwChanges, pwOk>>

\* h.db.Model(&user).Update("password", ...)
VerifyUpdatePassword(q) ==
    /\ pwReq[q].pc = "found"
    /\ password' = q
    /\ pwChanges' = pwChanges + 1
    /\ pwReq' = [pwReq EXCEPT ![q].pc = "updated"]
    /\ UNCHANGED <<pwClock, pwReset, pwOk>>

\* h.db.Model(&reset).Update("used", true), and the answer 200.
VerifyMarkUsed(q) ==
    /\ pwReq[q].pc = "updated"
    /\ pwReset' = [pwReset EXCEPT !.used = TRUE]
    /\ pwOk' = pwOk + 1
    /\ pwReq' = [pwReq EXCEPT ![q].pc = "ok"]
    /\ UNCHANGED <<pwClock, password, pwChanges>>

\* The request is over; another one may come.
VerifyDone(q) ==
    /\ pwReq[q].pc \in {"ok", "rejected"}
    /\ pwReq' = [pwReq EXCEPT ![q] = [pc |-> "idle", code |-> ""]]
    /\ UNCHANGED <<pwClock, pwReset, password, pwChanges, pwOk>>

\* A minute passes.
PwTick ==
    /\ pwClock < ResetTTL + MaxLate
    /\ pwClock' = pwClock + 1
    /\ UNCHANGED <<pwReset, password, pwReq, pwChanges, pwOk>>

PWNext ==
    \/ RequestPasswordReset
    \/ \E q \in PwClients, code \in PwCodes : VerifyLookup(q, code)
    \/ \E q \in PwClients : VerifyUpdatePassword(q)
    \/ \E q \in PwClients : VerifyMarkUsed(q)
    \/ \E q \in PwClients : VerifyDone(q)
    \/ PwTick

----------------------------------------------------------------------------
(***************************************************************************)
(* Queues named after a resource.  GetEmailQueueName derives a queue name  *)
(* from the identifier of SMTP settings; a producer may enqueue a task on  *)
(* any queue name (the broker keeps one list per name), and the server of  *)
(* NewServer asks the broker for tasks of the queues of its Config.        *)
(* A text is the list of its parts; an identifier is a list of characters. *)
(***************************************************************************)

SmtpIds == {<<"1">>, <<"2">>, <<"1", "2">>}

\* fmt.Sprintf("email:smtp:%s", smtpSettingsID)
GetEmailQueueName(smtpSettingsID) == <<"email:smtp:">> \o smtpSettingsID

\* The names of the queues of Config.Queues.
ConfigNames == {<<q>> : q \in ServerQueues}

\* The queue names of the model.
QueueNames == ConfigNames \cup {GetEmailQueueName(i) : i \in SmtpIds}

\* The server has been started; no task is stored.
EQInit ==
    /\ eqPending = [n \in QueueNames |-> 0]
    /\ eqPc = "acquire"
    /\ eqActive = 0
    /\ eqClaimed = {}

\* A producer enqueues a task with the option asynq.Queue(n).
EQEnqueue(n) ==
    /\ eqPending[n] < MaxPending
    /\ eqPending' = [eqPending EXCEPT ![n] = @ + 1]
    /\ UNCHANGED <<eqPc, eqActive, eqClaimed>>

\* The processor takes a worker slot before it asks for a task.
EQAcquire ==
    /\ eqPc = "acquire"
    /\ eqActive < Concurrency
    /\ eqPc' = "dequeue"
    /\ UNCHANGED <<eqPending, eqActive, eqClaimed>>

\* The queues of the Config that hold a ready task and may be served next
\* (strict priority: the one of greatest weight).
EQServable ==
    {n \in ConfigNames :
        /\ eqPending[n] > 0
        /\ StrictPriority =>
              ~\E n2 \in ConfigNames : /\ QueueWeight(n2[1]) > QueueWeight(n[1])
                                       /\ eqPending[n2] > 0}

\* None of the queues of the Config holds a ready task: the slot is given
\* back and the processor tries again later.
EQIdle ==
    /\ eqPc = "dequeue"
    /\ \A n \in ConfigNames : eqPending[n] = 0
    /\ eqPc' = "acquire"
    /\ UNCHANGED <<eqPending, eqActive, eqClaimed>>

\* The broker hands out the head of queue n and a worker runs the task.
EQDequeue(n) ==
    /\ eqPc = "dequeue"
    /\ n \in EQServable
    /\ eqPending' = [eqPending EXCEPT ![n] = @ - 1]
    /\ eqActive' = eqActive + 1
    /\ eqClaimed' = eqClaimed \cup {n}
    /\ eqPc' = "acquire"

\* A handler returns; its goroutine releases the worker slot.
EQFinish ==
    /\ eqActive > 0
    /\ eqActive' = eqActive - 1
    /\ UNCHANGED <<eqPending, eqPc, eqClaimed>>

EQNext ==
    \/ \E n \in QueueNames : EQEnqueue(n)
    \/ EQAcquire
    \/ EQIdle
    \/ \E n \in QueueNames : EQDequeue(n)
    \/ EQFinish

----------------------------------------------------------------------------
(***************************************************************************)
(* Tokens.  Login checks the password, signs an access token and a refresh *)
(* token and stores an auth transaction; RefreshToken looks the presented  *)
(* token up among the auth transactions and stores a new access token in   *)
(* the row found; the middleware accepts an access token that is valid and *)
(* is the token of an auth transaction of its user and team.  A signed     *)
(* token is the record of its claims: equal claims give equal tokens.      *)
(* Time is in days.                                                        *)
(***************************************************************************)

AccessDays == 1         \* GenerateJWT: 24 * time.Hour
RefreshDays == 7        \* GenerateRefreshToken: 24 * 7 * time.Hour
ZeroTime == -1          \* time.Time{}: before every time of the clock

AuUsers == {"u1", "u2"}
TeamOf(u) == IF u = "u1" THEN "team1" ELSE "team2"

\* The empty string, and a text that is not a token.
NoToken == [kind |-> "none", user |-> "", team |-> "", iat |-> 0, exp |-> 0]
Garbage == [kind |-> "garbage", user |-> "", team |-> "", iat |-> 0, exp |-> 0]

\* utils.GenerateJWT(user)
GenerateJWT(u, now) ==
    [kind |-> "access", user |-> u, team |-> TeamOf(u), iat |-> now,
     exp |-> now + AccessDays]

\* utils.GenerateRefreshToken(user): the claims hold the user id only.
GenerateRefreshToken(u, now) ==
    [kind |-> "refresh", user |-> u, team |-> "", iat |-> now,
     exp |-> now + RefreshDays]

\* utils.ValidateRefreshToken: ParseUnverified reads the claims; it checks
\* neither the signature nor the expiry.
ValidateRefreshToken(tok) == tok.kind \in {"access", "refresh"}

\* &models.AuthTransaction{UserID: user.ID, TeamID: user.TeamID, Token: token}
LoginRow(n, u, token, refresh) ==
    [id |-> n, user |-> u, team |-> TeamOf(u), token |-> token,
     refresh |-> NoToken, expiresAt |-> ZeroTime]

\* Where("token = ? AND expires_at > ?", refreshToken, time.Now())
FindByToken(tok, now) == {r \in authTx : r.token = tok /\ r.expiresAt > now}

\* Where("user_id = ? AND team_id = ? AND token = ?", claims.UserID,
\*       claims.TeamID, tokenString)
TxCheck(tok) ==
    \E r \in authTx : r.user = tok.user /\ r.team = tok.team /\ r.token = tok

\* No request yet.
AUInit ==
    /\ auClock = 0
    /\ authTx = {}
    /\ issued = {}
    /\ auLast = [op |-> "none", tok |-> NoToken, at |-> 0, status |-> 0,
                 new |-> NoToken]

\* Login of user u: 401 when the password does not match; else the tokens
\* are signed, the auth transaction is created and both tokens returned.
Login(u, passwordOk) ==
    /\ Cardinality(authTx) < MaxLogins
    /\ IF passwordOk
       THEN LET token == GenerateJWT(u, auClock)
                refreshToken == GenerateRefreshToken(u, auClock)
            IN /\ authTx' = authTx \cup
                      {LoginRow(Cardinality(authTx) + 1, u, token, refreshToken)}
               /\ issued' = issued \cup {[token |-> token, refresh |-> refreshToken]}
               /\ auLast' = [op |-> "login", tok |-> refreshToken, at |-> auClock,
                             status |-> 200, new |-> token]
       ELSE /\ auLast' = [op |-> "login", tok |-> NoToken, at |-> auClock,
                          status |-> 401, new |-> NoToken]
            /\ UNCHANGED <<authTx, issued>>
    /\ UNCHANGED auClock

\* RefreshToken with the text tok in the request.
RefreshToken(tok) ==
    /\ IF ~ValidateRefreshToken(tok) \/ FindByToken(tok, auClock) = {}
       THEN /\ auLast' = [op |-> "refresh", tok |-> tok, at |-> auClock,
                          status |-> 401, new |-> NoToken]
            /\ UNCHANGED authTx
       ELSE \E r \in FindByToken(tok, auClock) :
               LET accessToken == GenerateJWT(r.user, auClock)
               IN /\ authTx' = (authTx \ {r}) \cup {[r EXCEPT !.token = accessToken]}
                  /\ auLast' = [op |-> "refresh", tok |-> tok, at |-> auClock,
                                status |-> 200, new |-> accessToken]
    /\ UNCHANGED <<auClock, issued>>

\* A request with the bearer token tok passes validateJWT up to the check
\* of the auth transaction.
ValidateJWT(tok) ==
    /\ auLast' = [op |-> "check", tok |-> tok, at |-> auClock,
                  status |-> IF /\ tok.kind \in {"access", "refresh"}
                                /\ auClock < tok.exp
                                /\ TxCheck(tok)
                             THEN 200 ELSE 401,
                  new |-> NoToken]
    /\ UNCHANGED <<auClock, authTx, issued>>

\* A day passes.
AuTick ==
    /\ auClock < RefreshDays + MaxLate
    /\ auClock' = auClock + 1
    /\ UNCHANGED <<authTx, issued, auLast>>

\* The texts a client may present.
Presentable ==
    {Garbage} \cup {p.token : p \in issued} \cup {p.refresh : p \in issued}

AUNext ==
    \/ \E u \in AuUsers, ok \in BOOLEAN : Login(u, ok)
    \/ \E tok \in Presentable : RefreshToken(tok)
    \/ \E tok \in Presentable : ValidateJWT(tok)
    \/ AuTick

----------------------------------------------------------------------------
(***************************************************************************)
(* Accounts: the super admin made at start, InviteUser, AcceptInvite and   *)
(* Register of AuthHandler, and Create, Update and Delete of a             *)
(* BaseService, on a database whose statements may fail.  Statements on tx *)
(* take effect at Commit and are dropped by Rollback; statements on h.db   *)
(* take effect at once.  The AfterCreate hooks of Team and TeamInvite emit *)
(* their event when the row has been inserted.  The database compares      *)
(* texts by case.  One request is one step.  Time is in weeks.             *)
(***************************************************************************)

InviteWeeks == 1        \* time.Now().Add(24 * 7 * time.Hour)

AcEmails == {"s@x", "n@x"}
AcRoles == {"ADMIN", "MEMBER"}
InviteCodes == <<"k1", "k2">>       \* utils.GenerateRandomString(32), in turn
AcCodes == {"k1", "k2", "zz"}       \* the codes a client may send
AcIds == {"x"}                      \* ids of rows of the BaseService's table
DbFaults == {"none", "team", "user", "save", "assign", "commit"}

\* models.InviteStatusPending, models.InviteStatusAccepted
InviteStatusPending == "PENDING"
InviteStatusAccepted == "ACCEPTED"

NoLast ==
    [op |-> "none", arg |-> "", status |-> 0, existed |-> FALSE,
     pending |-> FALSE, users |-> {}, teams |-> {}, emitted |-> {}]

\* What a request found when it began.
Found(op, arg, existed, wasPending) ==
    [op |-> op, arg |-> arg, status |-> 0, existed |-> existed,
     pending |-> wasPending, users |-> acUsers, teams |-> acTeams, emitted |-> {}]

\* An empty database.
ACInit ==
    /\ acClock = 0
    /\ acUsers = {}
    /\ acTeams = {}
    /\ acInvites = {}
    /\ acPerms = {}
    /\ acRows = {}
    /\ acEvents = {}
    /\ acSeq = 0
    /\ acN = 0
    /\ acLast = NoLast

HasUser(email) == \E u \in acUsers : u.email = email

\* The request ends: its response and the events it emitted.
Respond(found, status, emitted) ==
    /\ acLast' = [found EXCEPT !.status = status, !.emitted = emitted]
    /\ acEvents' = acEvents \cup emitted
    /\ acN' = acN + 1

\* models.CreateSuperAdminFromEnv, called when the routes are set up: with
\* no super admin yet, a team and the super admin are created.
CreateSuperAdminFromEnv ==
    /\ acN < MaxReqs
    /\ ~\E u \in acUsers : u.role = "SUPER_ADMIN"
    /\ acSeq' = acSeq + 1
    /\ acTeams' = acTeams \cup {acSeq + 1}
    /\ acUsers' = acUsers \cup {[email |-> "s@x", team |-> acSeq + 1,
                                 role |-> "SUPER_ADMIN"]}
    /\ Respond(Found("seed", "s@x", HasUser("s@x"), FALSE), 0,
               {[name |-> "team.created", ref |-> acSeq + 1]})
    /\ UNCHANGED <<acClock, acInvites, acPerms, acRows>>

\* InviteUser by the signed-in user inviter: a code is drawn and the invite
\* is stored with status PENDING, to expire a week later.
InviteUser(inviter, email, role, fault) ==
    /\ acN < MaxReqs
    /\ inviter \in acUsers
    /\ Cardinality(acInvites) < Len(InviteCodes)
    /\ LET invite == [code |-> InviteCodes[Cardinality(acInvites) + 1],
                      email |-> email, team |-> inviter.team, role |-> role,
                      status |-> InviteStatusPending,
                      expiresAt |-> acClock + InviteWeeks]
           found == Found("invite", invite.code, HasUser(email), FALSE)
       IN IF fault = "save"
          THEN /\ Respond(found, 500, {})
               /\ UNCHANGED acInvites
          ELSE /\ acInvites' = acInvites \cup {invite}
               /\ Respond(found, 201,
                          {[name |-> "invite.created", ref |-> invite.code]})
    /\ UNCHANGED <<acClock, acUsers, acTeams, acPerms, acRows, acSeq>>

\* Where("code = ? AND status = ? AND expires_at > ?", code, "pending", time.Now())
FindInvite(code, now) ==
    {iv \in acInvites :
        iv.code = code /\ iv.status = "pending" /\ iv.expiresAt > now}

\* The invite with this code is PENDING and has not expired.
PendingInvite(code) ==
    \E iv \in acInvites : /\ iv.code = code
                          /\ iv.status = InviteStatusPending
                          /\ iv.expiresAt > acClock

\* AcceptInvite with a code.  The user is created on h.db; the invite is
\* saved and the permissions are assigned on tx.
AcceptInvite(code, fault) ==
    /\ acN < MaxReqs
    /\ LET found == Found("accept", code,
                          \E iv \in acInvites : iv.code = code /\ HasUser(iv.email),
                          PendingInvite(code))
       IN IF FindInvite(code, acClock) = {}
          THEN /\ Respond(found, 400, {})
               /\ UNCHANGED <<acUsers, acInvites, acPerms>>
          ELSE \E iv \in FindInvite(code, acClock) :
                  LET newUser == [email |-> iv.email, team |-> iv.team,
                                  role |-> iv.role]
                  IN IF fault = "user" \/ HasUser(iv.email)
                     THEN /\ Respond(found, 500, {})
                          /\ UNCHANGED <<acUsers, acInvites, acPerms>>
                     ELSE /\ acUsers' = acUsers \cup {newUser}
                          /\ IF fault \in {"save", "assign", "commit"}
                             THEN /\ Respond(found, 500, {})
                                  /\ UNCHANGED <<acInvites, acPerms>>
                             ELSE /\ acInvites' = (acInvites \ {iv}) \cup
                                         {[iv EXCEPT !.status = "accepted"]}
                                  /\ acPerms' = acPerms \cup {iv.email}
                                  /\ Respond(found, 200, {})
    /\ UNCHANGED <<acClock, acTeams, acRows, acSeq>>

\* Where("email = ? AND status = ? AND expires_at > ?", req.Email,
\*       models.InviteStatusPending, time.Now())
FindPendingFor(email, now) ==
    {iv \in acInvites : /\ iv.email = email
                        /\ iv.status = InviteStatusPending
                        /\ iv.expiresAt > now}

\* "if err := ...First(&user).Error; err != nil": the lookup of the user
\* by email ends in an error, which is the case when no row is found.
UserLookupErr(email) == ~HasUser(email)

\* Register with an email.  The lookup of the user returns 400 when it ends
\* in an error.  When the lookup of a pending invite ends in an error, a
\* blank invite with status ACCEPTED is saved on h.db (the insert fails on
\* its blank uuid columns, and the error is dropped) and no team is made;
\* else a team is created on tx, whose AfterCreate hook emits
\* "team.created".  Then the user is created on tx (emails are unique),
\* the permissions are assigned, tx is committed, "users.created" emitted.
Register(email, fault) ==
    /\ acN < MaxReqs
    /\ LET createTeam == FindPendingFor(email, acClock) # {}
           found == Found("register", email, HasUser(email), createTeam)
           team == acSeq + 1
           hooked == IF createTeam
                     THEN {[name |-> "team.created", ref |-> team]} ELSE {}
           user == IF createTeam
                   THEN [email |-> email, team |-> team, role |-> "ADMIN"]
                   ELSE [email |-> email, team |-> 0, role |-> ""]
       IN IF UserLookupErr(email)
          THEN /\ Respond(found, 400, {})
               /\ UNCHANGED <<acUsers, acTeams, acPerms, acSeq>>
          ELSE IF createTeam /\ fault = "team"
          THEN /\ Respond(found, 500, {})
               /\ UNCHANGED <<acUsers, acTeams, acPerms, acSeq>>
          ELSE /\ acSeq' = IF createTeam THEN team ELSE acSeq
               /\ IF fault = "user" \/ HasUser(email)
                  THEN /\ Respond(found, 400, hooked)
                       /\ UNCHANGED <<acUsers, acTeams, acPerms>>
                  ELSE IF fault \in {"assign", "commit"}
                  THEN /\ Respond(found, 500, hooked)
                       /\ UNCHANGED <<acUsers, acTeams, acPerms>>
                  ELSE /\ acTeams' = IF createTeam THEN acTeams \cup {team}
                                     ELSE acTeams
                       /\ acUsers' = acUsers \cup {user}
                       /\ acPerms' = acPerms \cup {email}
                       /\ Respond(found, 201, hooked \cup
                                  {[name |-> "users.created", ref |-> email]})
    /\ UNCHANGED <<acClock, acInvites, acRows>>

\* The row with this id that is not deleted, if any.
Live(id) == {r \in acRows : r.id = id /\ ~r.deleted}

\* BaseServiceImpl.Create of an entity with a new id.
Create(id, fault) ==
    /\ acN < MaxReqs
    /\ ~\E r \in acRows : r.id = id
    /\ IF fault = "save"
       THEN /\ Respond(Found("create", id, FALSE, FALSE), 500, {})
            /\ UNCHANGED acRows
       ELSE /\ acRows' = acRows \cup {[id |-> id, deleted |-> FALSE]}
            /\ Respond(Found("create", id, FALSE, FALSE), 0,
                       {[name |-> "rows.created", ref |-> id]})
    /\ UNCHANGED <<acClock, acUsers, acTeams, acInvites, acPerms, acSeq>>

\* BaseServiceImpl.Update: Updates on the rows "id = ? AND is_deleted = ?"
\* (the columns of the entity are not part of the model).
Update(id, fault) ==
    /\ acN < MaxReqs
    /\ IF fault = "save"
       THEN Respond(Found("update", id, Live(id) # {}, FALSE), 500, {})
       ELSE Respond(Found("update", id, Live(id) # {}, FALSE), 0,
                    {[name |-> "rows.updated", ref |-> id]})
    /\ UNCHANGED <<acClock, acUsers, acTeams, acInvites, acPerms, acRows, acSeq>>

\* BaseServiceImpl.Delete: Update("deleted_at", ...).Update("is_deleted", true)
\* on the rows "id = ? AND is_deleted = ?"; a statement that changes no row
\* is not an error.
Delete(id, fault) ==
    /\ acN < MaxReqs
    /\ IF fault = "save"
       THEN /\ Respond(Found("delete", id, Live(id) # {}, FALSE), 500, {})
            /\ UNCHANGED acRows
       ELSE /\ acRows' = (acRows \ Live(id)) \cup
                            {[r EXCEPT !.deleted = TRUE] : r \in Live(id)}
            /\ Respond(Found("delete", id, Live(id) # {}, FALSE), 0,
                       {[name |-> "rows.deleted", ref |-> id]})
    /\ UNCHANGED <<acClock, acUsers, acTeams, acInvites, acPerms, acSeq>>

\* A week passes.
AcTick ==
    /\ acClock < InviteWeeks + MaxLate
    /\ acClock' = acClock + 1
    /\ UNCHANGED <<acUsers, acTeams, acInvites, acPerms, acRows, acEvents,
                   acSeq, acN, acLast>>

ACNext ==
    \/ CreateSuperAdminFromEnv
    \/ \E inviter \in acUsers, email \in AcEmails, role \in AcRoles,
          fault \in {"none", "save"} : InviteUser(inviter, email, role, fault)
    \/ \E code \in AcCodes, fault \in DbFaults : AcceptInvite(code, fault)
    \/ \E email \in AcEmails, fault \in DbFaults : Register(email, fault)
    \/ \E id \in AcIds, fault \in {"none", "save"} : Create(id, fault)
    \/ \E id \in AcIds, fault \in {"none", "save"} : Update(id, fault)
    \/ \E id \in AcIds, fault \in {"none", "save"} : Delete(id, fault)
    \/ AcTick

XInit ==
    /\ TLInit
    /\ CRInit
    /\ SCInit
    /\ MNInit
    /\ TCInit
    /\ PWInit
    /\ EQInit
    /\ AUInit
    /\ ACInit

Init == BusInit /\ RLInit /\ WSInit /\ XInit

Next == BusNext /\ UNCHANGED <<rlVars, wsVars, xVars>>

Spec == Init /\ [][Next]_vars

\* The Go scheduler runs every runnable goroutine: a caller inside On or Emit
\* takes its next step, and a started goroutine runs its handler.
BusFairness ==
    /\ \A c \in Callers :
          WF_vars((OnLock(c) \/ OnRead(c) \/ OnWrite(c)
                   \/ EmitRead(c) \/ EmitSpawn(c) \/ EmitReturn(c))
                  /\ UNCHANGED <<rlVars, wsVars, xVars>>)
    /\ \A g \in GoIds : WF_vars(GoRun(g) /\ UNCHANGED <<rlVars, wsVars, xVars>>)

\* The liveness properties are checked for one calling goroutine (the second
\* caller never starts); the goroutines Emit starts run concurrently with it.
FairCallers == {"c1"}

FairInit ==
    /\ BusInit!1 /\ BusInit!2
    /\ call = [c \in Callers |->
                 IF c \in FairCallers THEN NoCall ELSE [NoCall EXCEPT !.pc = "absent"]]
    /\ BusInit!4 /\ BusInit!5 /\ BusInit!6 /\ BusInit!7 /\ BusInit!8 /\ BusInit!9
    /\ RLInit /\ WSInit /\ XInit

FairSpec == FairInit /\ [][Next]_vars /\ BusFairness

\* The rate limiter called by concurrent clients.
RLSpec == Init /\ [][RLNext /\ UNCHANGED <<busVars, wsVars, xVars>>]_vars

\* The rate limiter called by one client, one call after the other.
RLSeqInit ==
    /\ BusInit
    /\ RLInit!1 /\ RLInit!2 /\ RLInit!3
    /\ rlCall = [c \in RLClients |->
                   IF c = "r1" THEN NoAllow ELSE [NoAllow EXCEPT !.pc = "absent"]]
    /\ RLInit!5
    /\ WSInit /\ XInit

RLSeqSpec == RLSeqInit /\ [][RLNext /\ UNCHANGED <<busVars, wsVars, xVars>>]_vars

\* The worker server.
WSSpec == Init /\ [][WSNext /\ UNCHANGED <<busVars, rlVars, xVars>>]_vars

\* The processor loop and the handler goroutines are scheduled, and a handler
\* returns (the not-found handler at once); producers need not enqueue.
WSFairness ==
    /\ WF_vars(ProcAcquire /\ UNCHANGED <<busVars, rlVars, xVars>>)
    /\ WF_vars((ProcIdle \/ \E q \in Queues : ProcDequeue(q))
               /\ UNCHANGED <<busVars, rlVars, xVars>>)
    /\ WF_vars(WorkerFinish /\ UNCHANGED <<busVars, rlVars, xVars>>)

WSFairSpec == WSSpec /\ WSFairness

\* The life cycle of tasks in the worker server.
TLSpec == Init /\ [][TLNext /\ UNCHANGED tlFrame]_vars

\* The processor loop, the workers and the forwarder are scheduled; a
\* handler returns or runs into its deadline.
TLFairness ==
    /\ WF_vars(TLAcquire /\ UNCHANGED tlFrame)
    /\ WF_vars((TLIdle \/ \E t \in TaskIds : TLDequeue(t))
               /\ UNCHANGED tlFrame)
    /\ \A t \in TaskIds :
          /\ WF_vars(TaskDone(t) /\ UNCHANGED tlFrame)
          /\ WF_vars(Forward(t) /\ UNCHANGED tlFrame)

TLFairSpec == TLSpec /\ TLFairness

\* The scheduler.
SCSpec == Init /\ [][SCNext /\ UNCHANGED scFrame]_vars

\* The process from the start of main to its end.
MNSpec == Init /\ [][MNNext /\ UNCHANGED mnFrame]_vars

\* A producer that enqueues through the task client.
TCSpec == Init /\ [][TCNext /\ UNCHANGED tcFrame]_vars

\* Password reset requests.
PWSpec == Init /\ [][PWNext /\ UNCHANGED pwFrame]_vars

\* The CronSchedule option, built and applied for every expression and time.
CRSpec == Init /\ [][CRNext /\ UNCHANGED crFrame]_vars

\* Requests to the accounts and to a BaseService.
ACSpec == Init /\ [][ACNext /\ UNCHANGED acFrame]_vars

\* Logins, token refreshes and authenticated requests.
AUSpec == Init /\ [][AUNext /\ UNCHANGED auFrame]_vars

\* The server and producers that enqueue on any queue name.
EQSpec == Init /\ [][EQNext /\ UNCHANGED eqFrame]_vars

\* The processor and the workers are scheduled.
EQFairness ==
    /\ WF_vars(EQAcquire /\ UNCHANGED eqFrame)
    /\ WF_vars((EQIdle \/ \E n \in QueueNames : EQDequeue(n)) /\ UNCHANGED eqFrame)
    /\ WF_vars(EQFinish /\ UNCHANGED eqFrame)

EQFairSpec == EQSpec /\ EQFairness


----------------------------------------------------------------------------
(***************************************************************************)
(* Properties of the event bus                                             *)
(***************************************************************************)

\* Emit m has read the registry and found i or more handlers for its event.
Dispatching(m, i) == m \in DOMAIN emitLog /\ i <= Len(emitLog[m].hs)

\* The handler at index i of emit m has been called.
Invoked(m, i) ==
    /\ <<m, i>> \in DOMAIN gor
    /\ gor[<<m, i>>].st \in {"running", "done", "recovered"}

\* Emit m has returned to its caller.
Returned(m) == m \in DOMAIN emitLog /\ emitLog[m].returned

\* Emit m dispatches a handler that panics / that blocks for ever.
HasPanicking(m) ==
    m \in DOMAIN emitLog /\ \E i \in 1..Len(emitLog[m].hs) : emitLog[m].hs[i] = "hPanic"
HasBlocking(m) ==
    m \in DOMAIN emitLog /\ \E i \in 1..Len(emitLog[m].hs) : emitLog[m].hs[i] = "hBlock"

\* C1: whatever subset of the handlers of an event panics during an Emit,
\* the process never crashes, every handler the Emit found for the event is
\* still invoked, and the Emit returns normally to its caller.
C1_PanicIsolated ==
    /\ [](~crashed)
    /\ \A m \in EmitIds : \A i \in 1..MaxOps :
          [](Dispatching(m, i) => <>Invoked(m, i))
    /\ \A m \in EmitIds : [](HasPanicking(m) => <>Returned(m))

\* C1 witness: an Emit has returned, one of its handlers has panicked and
\* been recovered, and another handler of the same Emit has run to its end
\* after it.
C1_Witness ==
    \E m \in DOMAIN emitLog :
        /\ emitLog[m].returned
        /\ \E i, j \in 1..Len(emitLog[m].hs) :
              /\ i # j
              /\ Invoked(m, i) /\ gor[<<m, i>>].st = "recovered"
              /\ Invoked(m, j) /\ gor[<<m, j>>].st = "done"

\* C2: Emit returns to its caller without waiting for any handler, also when
\* a handler it dispatched blocks for ever, and a blocked handler keeps no
\* other handler of the same Emit from starting.
C2_EmitNeverWaits ==
    /\ \A m \in EmitIds : [](m \in DOMAIN emitLog => <>Returned(m))
    /\ \A m \in EmitIds : \A i \in 1..MaxOps :
          []((HasBlocking(m) /\ Dispatching(m, i)) => <>Invoked(m, i))

\* C2 witness: an Emit has returned while its first handler is blocked, and
\* a later handler of the same Emit has been started.
C2_Witness ==
    \E m \in DOMAIN emitLog :
        /\ emitLog[m].returned
        /\ Len(emitLog[m].hs) >= 2
        /\ Invoked(m, 1) /\ gor[<<m, 1>>].h = "hBlock" /\ gor[<<m, 1>>].st = "running"
        /\ Invoked(m, 2)

\* The goroutines emit m has started for handler h.
StartedFor(m, h) == {g \in DOMAIN gor : g[1] = m /\ gor[g].h = h}

\* C3: an Emit of an event for which no handler was ever registered returns
\* at once (its lookup is its last step), starts no goroutine, leaves the
\* registry as it was and does not fail.
C3_NoHandlersNoop ==
    [][\A c \in Callers :
          (/\ call[c].pc = "emit_read"
           /\ call'[c] # call[c]
           /\ \A h \in Handlers : regCount[call[c].event][h] = 0)
          => (/\ call'[c] = NoCall
              /\ emitLog'[call[c].id].returned
              /\ handlers' = handlers
              /\ gor' = gor
              /\ ~crashed')]_vars

\* C3 witness: an Emit of "y.e" has returned without finding handlers while
\* "x.e" has a handler registered.
C3_Witness ==
    /\ "x.e" \in DOMAIN handlers
    /\ \E m \in DOMAIN emitLog :
          /\ emitLog[m].event = "y.e"
          /\ ~emitLog[m].exists
          /\ emitLog[m].returned

\* C4: registration is additive: an Emit that finds handler h registered k
\* times for its event starts h exactly k times (never more while it runs,
\* exactly k once it has returned), each time with the payload of the Emit.
C4_AdditiveRegistration ==
    \A m \in DOMAIN emitLog :
        /\ \A h \in Handlers :
              /\ Cardinality(StartedFor(m, h)) <= emitLog[m].regs[h]
              /\ emitLog[m].returned =>
                    Cardinality(StartedFor(m, h)) = emitLog[m].regs[h]
        /\ \A g \in DOMAIN gor : g[1] = m => gor[g].data = emitLog[m].data

\* C4 witness: On("x.e", hOk) twice, then Emit("x.e", 1) has returned and
\* hOk has run twice with payload 1.
C4_Witness ==
    /\ regCount["x.e"]["hOk"] = 2
    /\ \E m \in DOMAIN emitLog :
          /\ emitLog[m].event = "x.e" /\ emitLog[m].data = 1
          /\ emitLog[m].returned
          /\ emitLog[m].regs["hOk"] = 2
          /\ Cardinality({g \in StartedFor(m, "hOk") :
                            gor[g].st = "done" /\ gor[g].data = 1}) = 2

----------------------------------------------------------------------------
(***************************************************************************)
(* Properties of the rate limiter                                          *)
(***************************************************************************)

\* The calls for the same identifier that returned before call i and whose
\* time lies less than a window (at most a window) before the time of call i.
PriorWithin(i) ==
    {j \in 1..(i - 1) : /\ rlLog[j].id = rlLog[i].id
                        /\ ~rlLog[j].err
                        /\ rlLog[j].now > rlLog[i].now - RLWindow}
PriorAtMost(i) ==
    {j \in 1..(i - 1) : /\ rlLog[j].id = rlLog[i].id
                        /\ ~rlLog[j].err
                        /\ rlLog[j].now >= rlLog[i].now - RLWindow}

\* C5: of the calls of Allow(id) made within one window the first MaxJobs
\* return true and the next returns false; a call with fewer than MaxJobs
\* calls in the window before it (none, after an idle window) returns true.
C5_WindowLimit ==
    \A i \in DOMAIN rlLog :
        ~rlLog[i].err =>
            /\ Cardinality(PriorWithin(i)) >= RLMaxJobs => ~rlLog[i].allowed
            /\ Cardinality(PriorAtMost(i)) < RLMaxJobs => rlLog[i].allowed

\* C6: Allow returns true exactly when the number of entries left after
\* pruning, plus one for the new entry, is at most MaxJobs.
C6_CountPlusOne ==
    \A i \in DOMAIN rlLog :
        ~rlLog[i].err => (rlLog[i].allowed <=> rlLog[i].count + 1 <= RLMaxJobs)

\* The calls of order[k..] run one after the other, each as one atomic
\* prune-count-add-compare on the store, return what the log records.
RECURSIVE SerialRun(_, _, _)
SerialRun(order, k, store) ==
    IF k > Len(order) THEN TRUE
    ELSE LET r == rlLog[order[k]]
         IN IF r.err THEN SerialRun(order, k + 1, store)
            ELSE LET left == ZRemRangeByScore(store[r.id], 0, WindowStart(r.now))
                 IN /\ Admit(ZCard(left)) = r.allowed
                    /\ SerialRun(order, k + 1,
                                 [store EXCEPT ![r.id] = ZAdd(left, r.now, ZMember(r.now))])

SerialOrders ==
    {f \in [1..Len(rlLog) -> 1..Len(rlLog)] :
        \A a, b \in 1..Len(rlLog) : a # b => f[a] # f[b]}

\* C7: the outcomes of concurrent Allow calls are those of some serial order
\* of the calls: once every call has returned, some order of the calls, each
\* run atomically, returns the same results.
C7_Serializable ==
    (\A c \in RLClients : rlCall[c].pc \in {"idle", "absent"}) =>
        \E f \in SerialOrders : SerialRun(f, 1, [k \in RLIds |-> {}])

\* The calls of Allow(k) that returned without error.
CallsFor(k) == {j \in DOMAIN rlLog : rlLog[j].id = k /\ ~rlLog[j].err}

\* C26: when a call of Allow at time now has pruned and is about to count,
\* the set holds no time older than now - Window, and it still holds the
\* time of every earlier call for the identifier made at or after
\* now - Window, the one made exactly at now - Window included.
C26_ClosedWindowKept ==
    \A c \in RLClients :
        rlCall[c].pc = "zcard" =>
            /\ \A en \in zset[rlCall[c].id] : en[2] >= rlCall[c].now - RLWindow
            /\ \A j \in CallsFor(rlCall[c].id) :
                  rlLog[j].now >= rlCall[c].now - RLWindow =>
                     \E en \in zset[rlCall[c].id] : en[2] = rlLog[j].now

\* C27: when no call is in progress and every call of Allow(k) so far was
\* made less than a window ago (nothing was pruned, the key has not
\* expired), the set of k holds one entry per call.
C27_OneEntryPerCall ==
    (\A c \in RLClients : rlCall[c].pc \in {"idle", "absent"}) =>
        \A k \in RLIds :
            (\A j \in CallsFor(k) : rlLog[j].now > clock - RLWindow) =>
                Cardinality(zset[k]) = Cardinality(CallsFor(k))

----------------------------------------------------------------------------
(***************************************************************************)
(* Properties of the worker server                                         *)
(***************************************************************************)

C9_NoStarvation ==
    \A q \in {"default", "low"} :
        (mark[q] > 0) ~> (markStarted[q] \/ HigherReady(q))

\* C9 witness: the tracked task of the low queue has been started after it
\* waited behind another task, and the heavier queues are empty.
C9_Witness ==
    /\ markStarted["low"]
    /\ mark["low"] = 0
    /\ pending["critical"] = 0 /\ pending["default"] = 0

\* C10: at most Concurrency handlers execute at any moment.
C10_ConcurrencyBound == active <= Concurrency

\* C10 witness: all the worker slots are taken while a ready task waits.
C10_Witness ==
    /\ active = Concurrency
    /\ procPc = "acquire"
    /\ \E q \in Queues : pending[q] > 0


----------------------------------------------------------------------------
(***************************************************************************)
(* Properties of the life cycle of a task                                  *)
(***************************************************************************)

\* The worker has handled the result of task t's handler in this step.
Handled(t) ==
    msg[t].state = "active" /\ msg'[t].state \notin {"active", "pending"}

C13_GracefulStop ==
    /\ claimLog \cap {"StopReturned", "ShutdownCalled", "ShutdownReturned"} = {}
    /\ ctl = "closed" => (inFlight = {} \/ abort)


----------------------------------------------------------------------------
(***************************************************************************)
(* Properties of the CronSchedule option                                   *)
(***************************************************************************)

----------------------------------------------------------------------------
(***************************************************************************)
(* Properties of the scheduler                                             *)
(***************************************************************************)

\* Entry en, scheduled since en.since, is due at time t.
Due(en, t) ==
    LET schedule == ParseStandard(en.expr) IN
      IF schedule.kind = "every"
      THEN (t - en.since) % schedule.delay = 0
      ELSE Matches(schedule, t)

\* The times after en.since and up to t at which entry en is due.
DueTimes(en, t) == {u \in (en.since + 1) .. t : Due(en, u)}

C15_StopFinal ==
    /\ [](\A r \in enqLog : ~r.stopped)
    /\ [][/\ schState = "new" => schState' \in {"new", "active"}
          /\ schState = "active" => schState' \in {"active", "closed"}
          /\ schState = "closed" => schState' = "closed"
          /\ (nStop' = nStop + 1 /\ schState = "closed") =>
                /\ schState' = schState
                /\ entries' = entries
                /\ enqLog' = enqLog
                /\ stopPc' = stopPc]_vars

\* C16: RegisterCustomTask returns an error exactly when the spec does not
\* parse; then the entries are unchanged; else one entry, for the spec and
\* the task passed, is added and the others are unchanged; and every task
\* the scheduler enqueues comes from an entry whose spec parses.
C16_RegisterChecksSpec ==
    /\ [](\A r \in enqLog :
             /\ entries[r.entry].used
             /\ ParseStandard(entries[r.entry].expr).ok)
    /\ [][regLog'.n = regLog.n + 1 =>
             /\ regLog'.err <=> ~ParseStandard(regLog'.expr).ok
             /\ regLog'.err => entries' = entries
             /\ ~regLog'.err =>
                   \E e \in EntryIds :
                      /\ ~entries[e].used
                      /\ entries'[e].used
                      /\ entries'[e].expr = regLog'.expr
                      /\ \A e2 \in EntryIds \ {e} : entries'[e2] = entries[e2]]_vars

\* A call with a spec that does not parse has returned an error after an
\* earlier call had registered an entry: that entry is the only one.
C16_Witness ==
    /\ regLog.n = 2
    /\ regLog.err
    /\ ~ParseStandard(regLog.expr).ok
    /\ Cardinality({e \in EntryIds : entries[e].used}) = 1


----------------------------------------------------------------------------
(***************************************************************************)
(* Properties of the process                                               *)
(***************************************************************************)

\* C18: when Start of the task server or of the scheduler has returned an
\* error the process does not go on to serve: in no state is the process
\* alive with the API server serving requests and the task server or the
\* scheduler failed to start.
C18_StartupAborts ==
    (taskServer = "failed" \/ taskScheduler = "failed") =>
        ~(exited = "no" /\ apiServer = "serving")

\* C29: once main has cancelled the context of the task server, after a
\* signal, the task server no longer runs (it has been stopped or shut
\* down), and when main has returned neither the scheduler nor the task
\* server runs.
C29_SignalStopsWorkers ==
    /\ (exited = "no" /\ mainPc \in {"shutdownApi", "done"}) =>
          taskServer # "running"
    /\ exited = "returned" =>
          (taskScheduler # "running" /\ taskServer # "running")


----------------------------------------------------------------------------
(***************************************************************************)
(* Properties of the task client                                           *)
(***************************************************************************)

----------------------------------------------------------------------------
(***************************************************************************)
(* Properties of the password reset                                        *)
(***************************************************************************)

\* C20: a reset code is single-use: the one code issued leads to at most
\* one answer 200 and to at most one update of the password, whether the
\* requests that carry it come one after the other or at the same time; and
\* only a request that carries the issued code gets past the lookup.
C20_SingleUse ==
    /\ pwOk <= 1
    /\ pwChanges <= 1
    /\ \A q \in PwClients :
          pwReq[q].pc \in {"found", "updated", "ok"} =>
             pwReq[q].code = pwReset.code /\ pwReset.exists


----------------------------------------------------------------------------
(***************************************************************************)
(* Properties of the event bus under concurrent callers                    *)
(***************************************************************************)

\* The number of entries of list hs that are handler h.
Count(hs, h) == Cardinality({k \in 1 .. Len(hs) : hs[k] = h})

\* List a is the beginning of list b.
IsPrefix(a, b) ==
    /\ Len(a) <= Len(b)
    /\ \A k \in 1 .. Len(a) : a[k] = b[k]

\* C24: whatever the interleaving of On and Emit calls, the list of an
\* event holds one entry per completed On call (none is lost); an Emit has
\* looked up exactly the registrations completed before its lookup, each
\* handler once per registration, which are the beginning of the event's
\* list at any later time; and it starts goroutines for these handlers
\* only, for all of them by the time it returns.
C24_NoLostRegistration ==
    /\ \A e \in Events, h \in Handlers :
          Count(Lookup(e).hs, h) = regCount[e][h]
    /\ \A m \in DOMAIN emitLog :
          /\ \A h \in Handlers :
                Count(emitLog[m].hs, h) = emitLog[m].regs[h]
          /\ IsPrefix(emitLog[m].hs, Lookup(emitLog[m].event).hs)
          /\ \A j \in 1 .. MaxOps :
                <<m, j>> \in DOMAIN gor =>
                   /\ j <= Len(emitLog[m].hs)
                   /\ gor[<<m, j>>].h = emitLog[m].hs[j]
          /\ emitLog[m].returned =>
                \A j \in 1 .. Len(emitLog[m].hs) : <<m, j>> \in DOMAIN gor

\* An Emit is in its loop over the one handler it looked up while an On
\* call for the same event, made by the other caller, has since completed.
C24_Witness ==
    \E c \in Callers :
        /\ call[c].pc = "emit_loop"
        /\ Len(call[c].hs) = 1
        /\ Len(Lookup(call[c].event).hs) = 2

\* C25: the list of an event only grows at its end: a step keeps every
\* event and every entry of its list in place and adds at most one entry;
\* the step that ends On(e, h) makes e's list the old list followed by h
\* and changes no other list; and an Emit starts the goroutines of its
\* handlers in the order of the list (the goroutine of entry j is started
\* after those of the entries before it, for the handler at place j).
C25_AppendOnly ==
    /\ [][/\ \A e \in DOMAIN handlers :
                /\ e \in DOMAIN handlers'
                /\ IsPrefix(handlers[e], handlers'[e])
                /\ Len(handlers'[e]) <= Len(handlers[e]) + 1
          /\ \A c \in Callers :
                (call[c].pc = "on_write" /\ call'[c].pc = "idle") =>
                   /\ handlers'[call[c].event] =
                         Append(Lookup(call[c].event).hs, call[c].h)
                   /\ \A e \in DOMAIN handlers \ {call[c].event} :
                         handlers'[e] = handlers[e]]_vars
    /\ [](\A g \in DOMAIN gor :
             /\ \A i \in 1 .. (g[2] - 1) : <<g[1], i>> \in DOMAIN gor
             /\ gor[g].h = emitLog[g[1]].hs[g[2]])

\* Two handlers were registered for an event and an Emit has started both:
\* the goroutine of the second has ended, that of the first has not run.
C25_Witness ==
    \E m \in DOMAIN emitLog :
        /\ Len(emitLog[m].hs) = 2
        /\ <<m, 1>> \in DOMAIN gor
        /\ <<m, 2>> \in DOMAIN gor
        /\ gor[<<m, 1>>].st = "ready"
        /\ gor[<<m, 2>>].st = "done"

----------------------------------------------------------------------------
(***************************************************************************)
(* Properties of the queues named after a resource                         *)
(***************************************************************************)

\* C28: GetEmailQueueName gives different names for different identifiers,
\* and a task that is ready on the queue named after an identifier is
\* eventually claimed by the server.
C28_DerivedQueueServed ==
    /\ [](\A i, j \in SmtpIds :
             i # j => GetEmailQueueName(i) # GetEmailQueueName(j))
    /\ \A i \in SmtpIds :
          (eqPending[GetEmailQueueName(i)] > 0)
             ~> (GetEmailQueueName(i) \in eqClaimed)

----------------------------------------------------------------------------
(***************************************************************************)
(* Properties of the tokens                                                *)
(***************************************************************************)

\* C21: a RefreshToken request that presents a refresh token returned by a
\* Login, before that token expires, is answered 200 with a new access
\* token which is then the token of an auth transaction of its user and
\* team; a request that presents a text that is no token is answered 401.
C21_RefreshAccepted ==
    auLast.op = "refresh" =>
        /\ ((\E p \in issued : p.refresh = auLast.tok) /\ auLast.at < auLast.tok.exp)
              => /\ auLast.status = 200
                 /\ auLast.new.kind = "access"
                 /\ TxCheck(auLast.new)
        /\ auLast.tok = Garbage => auLast.status = 401

----------------------------------------------------------------------------
(***************************************************************************)
(* Properties of the accounts                                              *)
(***************************************************************************)

\* The invite with this code is marked accepted and a user with its email,
\* team and role is stored.
Joined(code) ==
    \E iv \in acInvites :
        /\ iv.code = code
        /\ iv.status \in {"accepted", InviteStatusAccepted}
        /\ [email |-> iv.email, team |-> iv.team, role |-> iv.role] \in acUsers

\* C22: AcceptInvite with the code of an invite that is PENDING and not
\* expired, for an email that has no user, is answered 200 unless a
\* statement fails (500); an answer of 200 is given only for an invite that
\* was PENDING and not expired, and then the invite is marked accepted and a
\* user with its email, team and role is stored; after any other answer
\* the users are those stored before the request.
C22_InviteAccepted ==
    acLast.op = "accept" =>
        /\ (acLast.pending /\ ~acLast.existed /\ acLast.status # 500)
              => acLast.status = 200
        /\ acLast.status = 200 => (acLast.pending /\ Joined(acLast.arg))
        /\ acLast.status # 200 => acUsers = acLast.users

\* C23: Register with an email that has no user is answered 201 unless a
\* statement fails (500), and then one user more is stored, the only one
\* with this email, and one team more unless a pending invite applied;
\* Register with an email that has a user is answered 400 (or 500) and
\* leaves the users and the teams as they were.
C23_RegisterOnce ==
    acLast.op = "register" =>
        /\ (~acLast.existed /\ acLast.status # 500) =>
              /\ acLast.status = 201
              /\ Cardinality({u \in acUsers : u.email = acLast.arg}) = 1
              /\ Cardinality(acUsers) = Cardinality(acLast.users) + 1
              /\ (acLast.pending
                    \/ Cardinality(acTeams) = Cardinality(acLast.teams) + 1)
        /\ acLast.existed =>
              /\ acLast.status \in {400, 500}
              /\ acUsers = acLast.users
              /\ acTeams = acLast.teams

\* C30: every "team.created" event names a stored team and every
\* "invite.created" event a stored invite; Create, Update and Delete of a
\* BaseService emit an event only when they return no error, Create only
\* for a stored row, and Delete only when a row that was not deleted has
\* been marked deleted.
C30_EventsAreDurable ==
    /\ \A ev \in acEvents :
          /\ ev.name = "team.created" => ev.ref \in acTeams
          /\ ev.name = "invite.created" =>
                \E iv \in acInvites : iv.code = ev.ref
          /\ ev.name = "rows.created" => \E r \in acRows : r.id = ev.ref
    /\ acLast.op \in {"create", "update", "delete"} =>
          /\ acLast.emitted # {} => acLast.status = 0
          /\ (acLast.op = "delete" /\ acLast.emitted # {}) =>
                /\ acLast.existed
                /\ \E r \in acRows : r.id = acLast.arg /\ r.deleted

=============================================================================
